---- MODULE Spec2Model ----
(***************************************************************************)
(* Model of deno-mcp-pandoc: format validation (src/src/validation.ts),    *)
(* filter path resolution (src/src/filters.ts), defaults-file validation   *)
(* (src/src/defaults.ts), the engine invoker (converter.ts) and the        *)
(* convert-contents tool handler (src/src/mcp.ts).                         *)
(*                                                                         *)
(* Representation.                                                         *)
(*   - A format token is a sequence of characters (one-character strings), *)
(*     so that String.prototype.toLowerCase is modelled character by       *)
(*     character.  "K_U212A" stands for the single code point U+212A       *)
(*     (KELVIN SIGN), whose lower case is the ASCII letter k.              *)
(*   - An optional value (a TypeScript `T | undefined`) is <<>> when it is *)
(*     undefined and <<v>> when it is the value v.                         *)
(*   - A path is a sequence of segments; an absolute path starts with the  *)
(*     root segment "/".  The empty sequence is the empty string.          *)
(***************************************************************************)
EXTENDS Naturals, Integers, Sequences, FiniteSets, TLC

VARIABLES
    call,       \* the pure-function call under evaluation (its operator and inputs)
    result,     \* what that call returned or threw
    env,        \* the process environment: Deno.build.os, HOME, USERPROFILE
    fs,         \* the filesystem: absolute path -> [type, mode]
    chmodLog,   \* the Deno.chmod calls made so far: <<[path, ok]>>
    requests    \* the tool calls: request id -> state of its handler

vars == <<call, result, env, fs, chmodLog, requests>>

-----------------------------------------------------------------------------
(* Optional values and JavaScript truthiness.                              *)

Undefined == <<>>

Some(v) == <<v>>

IsDefined(o) == o # Undefined

\* Truthiness of an optional string: undefined and the empty string are
\* falsy, every other string is truthy.
TruthyStr(o) == IsDefined(o) /\ o[1] # ""

-----------------------------------------------------------------------------
(* Characters and String.prototype.toLowerCase.                            *)

LowerTable ==
    ( "A" :> "a" @@ "B" :> "b" @@ "C" :> "c" @@ "D" :> "d" @@ "E" :> "e" @@
      "F" :> "f" @@ "G" :> "g" @@ "H" :> "h" @@ "I" :> "i" @@ "J" :> "j" @@
      "K" :> "k" @@ "L" :> "l" @@ "M" :> "m" @@ "N" :> "n" @@ "O" :> "o" @@
      "P" :> "p" @@ "Q" :> "q" @@ "R" :> "r" @@ "S" :> "s" @@ "T" :> "t" @@
      "U" :> "u" @@ "V" :> "v" @@ "W" :> "w" @@ "X" :> "x" @@ "Y" :> "y" @@
      "Z" :> "z" @@ "K_U212A" :> "k" )

LowerChar(c) == IF c \in DOMAIN LowerTable THEN LowerTable[c] ELSE c

toLowerCase(s) == [i \in 1..Len(s) |-> LowerChar(s[i])]

-----------------------------------------------------------------------------
(* validation.ts: the format registry.                                     *)

PandocFormat ==
    [ Markdown         |-> <<"m","a","r","k","d","o","w","n">>,
      HTML             |-> <<"h","t","m","l">>,
      Text             |-> <<"p","l","a","i","n">>,
      Jupyter          |-> <<"i","p","y","n","b">>,
      ODT              |-> <<"o","d","t">>,
      PDF              |-> <<"p","d","f">>,
      DOCX             |-> <<"d","o","c","x">>,
      ReStructuredText |-> <<"r","s","t">>,
      LaTeX            |-> <<"l","a","t","e","x">>,
      EPUB             |-> <<"e","p","u","b">> ]

INPUT_FORMATS ==
    << PandocFormat.Markdown, PandocFormat.HTML, PandocFormat.Text,
       PandocFormat.Jupyter, PandocFormat.ODT, PandocFormat.DOCX,
       PandocFormat.ReStructuredText, PandocFormat.LaTeX, PandocFormat.EPUB >>

ALL_FORMATS == INPUT_FORMATS \o << PandocFormat.PDF >>

\* Mutant: the list without its last entry.
FILE_OUTPUT_REQUIRED_FORMATS_NoODT ==
    << PandocFormat.PDF, PandocFormat.DOCX, PandocFormat.EPUB >>

FILE_OUTPUT_REQUIRED_FORMATS ==
    << PandocFormat.PDF, PandocFormat.DOCX, PandocFormat.EPUB, PandocFormat.ODT >>

\* Array.prototype.includes / some((f) => f === x)
includes(list, x) == \E i \in 1..Len(list) : list[i] = x

\* Outcomes of a call: a returned value or a thrown error.  The message of an
\* error is kept as its variable parts: the fixed text, the echoed format
\* token and the context suffix.
Return(v) == [kind |-> "return", value |-> v]

Throw(name, text, format, context) ==
    [kind |-> "throw", name |-> name, text |-> text,
     format |-> format, context |-> context]

\* errors.ts: `Unsupported format: "${format}"${ctx}. ...` with
\* ctx = context ? ` ${context}` : ""
UnsupportedFormatError(format, context) ==
    Throw("UnsupportedFormatError", "Unsupported format", format, context)

ValidationError(text) == Throw("ValidationError", text, <<>>, "")

TxtToken == <<"t","x","t">>

\* Mutant: the error echoes the lower-cased token instead of the raw one.
validateFormat_EchoLowered(format, allowedFormats) ==
    LET lowered    == toLowerCase(format)
        normalized == IF lowered = TxtToken THEN PandocFormat.Text ELSE lowered
    IN  IF ~includes(ALL_FORMATS, normalized)
        THEN UnsupportedFormatError(lowered, "")
        ELSE IF ~includes(allowedFormats, normalized)
             THEN UnsupportedFormatError(lowered,
                      IF allowedFormats = INPUT_FORMATS THEN "for input" ELSE "")
             ELSE Return(normalized)

validateFormat(format, allowedFormats) ==
    LET lowered    == toLowerCase(format)
        normalized == IF lowered = TxtToken THEN PandocFormat.Text ELSE lowered
    IN  IF ~includes(ALL_FORMATS, normalized)
        THEN UnsupportedFormatError(format, "")
        ELSE IF ~includes(allowedFormats, normalized)
             THEN UnsupportedFormatError(format,
                      IF allowedFormats = INPUT_FORMATS THEN "for input" ELSE "")
             ELSE Return(normalized)

\* Mutant: the input path checks against the full list.
validateInputFormat_AllFormats(format) == validateFormat(format, ALL_FORMATS)

validateInputFormat(format) == validateFormat(format, INPUT_FORMATS)

validateOutputFormat(format) == validateFormat(format, ALL_FORMATS)

requiresFileOutput(format) == includes(FILE_OUTPUT_REQUIRED_FORMATS, format)

-----------------------------------------------------------------------------
(* Inputs of the format functions.                                         *)

UpperOf(c) ==
    IF \E u \in DOMAIN LowerTable : u # "K_U212A" /\ LowerTable[u] = c
    THEN CHOOSE u \in DOMAIN LowerTable : u # "K_U212A" /\ LowerTable[u] = c
    ELSE c

\* Every spelling of a lower-case word obtained by changing the case of
\* some of its letters (and, for k, by writing the Kelvin sign).
RECURSIVE CaseVariants(_)
CaseVariants(w) ==
    IF w = <<>> THEN { <<>> }
    ELSE { <<c>> \o v :
             c \in {w[1], UpperOf(w[1])} \cup (IF w[1] = "k" THEN {"K_U212A"} ELSE {}),
             v \in CaseVariants(Tail(w)) }

FormatSet == { ALL_FORMATS[i] : i \in 1..Len(ALL_FORMATS) }

UnknownTokens ==
    { <<>>, <<"t","e","x","t">>, <<"T","E","X","T">>, <<"m","d">>,
      <<"p","d","f","x">>, <<"p","d">>, <<" ","p","d","f">>, <<"P","D","F"," ">>,
      <<"d","o","c">>, <<"t","x">>, <<"t","x","t","s">>, <<"x","y","z">>,
      <<"X","Y","Z">>, <<"h","t","m">>, <<"p","l","a","i","n","s">> }

FormatTokens ==
    UNION { CaseVariants(f) : f \in FormatSet \cup {TxtToken} } \cup UnknownTokens

-----------------------------------------------------------------------------
(* The format functions applied to drawn inputs.                           *)

NoResult == [kind |-> "none"]

\* The format functions touch neither the environment nor the filesystem.
NoEnvironment ==
    /\ env = [os |-> "linux", HOME |-> Undefined, USERPROFILE |-> Undefined,
              PANDOC_PATH |-> Undefined]
    /\ fs = << >>
    /\ chmodLog = << >>
    /\ requests = << >>

FormatInit ==
    /\ call \in { [op |-> "pending", format |-> t] : t \in FormatTokens }
    /\ result = NoResult
    /\ NoEnvironment

ValidateInputFormatCall ==
    /\ call.op = "pending"
    /\ call' = [call EXCEPT !.op = "validateInputFormat"]
    /\ result' = validateInputFormat(call.format)
    /\ UNCHANGED <<env, fs, chmodLog, requests>>

ValidateOutputFormatCall ==
    /\ call.op = "pending"
    /\ call' = [call EXCEPT !.op = "validateOutputFormat"]
    /\ result' = validateOutputFormat(call.format)
    /\ UNCHANGED <<env, fs, chmodLog, requests>>

\* requiresFileOutput takes a PandocFormat: it is applied to the tokens that
\* are members of the enum.
RequiresFileOutputCall ==
    /\ call.op = "pending"
    /\ call.format \in FormatSet
    /\ call' = [call EXCEPT !.op = "requiresFileOutput"]
    /\ result' = Return(requiresFileOutput(call.format))
    /\ UNCHANGED <<env, fs, chmodLog, requests>>

FormatNext ==
    \/ ValidateInputFormatCall
    \/ ValidateOutputFormatCall
    \/ RequiresFileOutputCall

FormatSpec == FormatInit /\ [][FormatNext]_vars

-----------------------------------------------------------------------------
(* Format functions: properties.                                           *)

\* The ten canonical tokens, the alias and the file-only formats, written out
\* as the documentation lists them.
TenCanonicalTokens ==
    { <<"m","a","r","k","d","o","w","n">>, <<"h","t","m","l">>,
      <<"p","l","a","i","n">>, <<"i","p","y","n","b">>, <<"o","d","t">>,
      <<"p","d","f">>, <<"d","o","c","x">>, <<"r","s","t">>,
      <<"l","a","t","e","x">>, <<"e","p","u","b">> }

PdfToken == <<"p","d","f">>

PlainToken == <<"p","l","a","i","n">>

FileOnlyTokens ==
    { <<"p","d","f">>, <<"d","o","c","x">>, <<"e","p","u","b">>, <<"o","d","t">> }

IsUnsupportedFormat(r) == r.kind = "throw" /\ r.name = "UnsupportedFormatError"

\* C6: validateOutputFormat(t) returns the lower-cased t when that is one of
\* the ten canonical tokens, returns plain when the lower-cased t is txt, and
\* for every other t throws UnsupportedFormatError echoing t as given.
C6_OutputFormatNormalization ==
    call.op = "validateOutputFormat" =>
        LET l == toLowerCase(call.format)
        IN  /\ l \in TenCanonicalTokens => result = Return(l)
            /\ l = <<"t","x","t">> => result = Return(PlainToken)
            /\ l \notin TenCanonicalTokens \cup { <<"t","x","t">> } =>
                   /\ IsUnsupportedFormat(result)
                   /\ result.format = call.format

\* An unknown token written in upper case was rejected and echoed unchanged.
C6_Witness ==
    /\ call.op = "validateOutputFormat"
    /\ call.format = <<"T","E","X","T">>
    /\ IsUnsupportedFormat(result)
    /\ result.format = <<"T","E","X","T">>

\* C7: pdf in any letter case is rejected by validateInputFormat with the
\* "for input" context and accepted by validateOutputFormat; the "for input"
\* context is carried only by the rejection of a known token that is not
\* input-capable, never by the rejection of an unknown token.
C7_PdfInputOnlyRejection ==
    LET l     == toLowerCase(call.format)
        known == l \in TenCanonicalTokens \cup { <<"t","x","t">> }
    IN  /\ (call.op = "validateInputFormat" /\ l = PdfToken) =>
               /\ IsUnsupportedFormat(result)
               /\ result.context = "for input"
               /\ result.format = call.format
        /\ (call.op = "validateOutputFormat" /\ l = PdfToken) =>
               result = Return(PdfToken)
        /\ (call.op \in {"validateInputFormat", "validateOutputFormat"}
              /\ result.kind = "throw" /\ result.context = "for input") =>
               /\ call.op = "validateInputFormat"
               /\ known
               /\ l = PdfToken
        /\ (call.op \in {"validateInputFormat", "validateOutputFormat"}
              /\ result.kind = "throw" /\ ~known) =>
               result.context = ""

\* A mixed-case pdf went through the input path and was rejected "for input".
C7_Witness ==
    /\ call.op = "validateInputFormat"
    /\ call.format = <<"P","d","F">>
    /\ IsUnsupportedFormat(result)
    /\ result.context = "for input"

\* C8: requiresFileOutput(f) is true for exactly pdf, docx, epub and odt, and
\* false for markdown, html, plain, latex, rst and ipynb.
C8_RequiresFileOutputExact ==
    call.op = "requiresFileOutput" =>
        /\ call.format \in TenCanonicalTokens
        /\ result = Return(call.format \in FileOnlyTokens)

\* requiresFileOutput was applied to odt and answered true.
C8_Witness ==
    /\ call.op = "requiresFileOutput"
    /\ call.format = <<"o","d","t">>
    /\ result = Return(TRUE)

-----------------------------------------------------------------------------
(* validation.ts: validateConversionParams.                                *)
(* params.contents, params.inputFile and params.outputFile are optional    *)
(* strings; params.inputFormat and params.outputFormat are tokens.         *)

MsgBoth == "Cannot specify both 'contents' and 'input_file'. Please provide only one."

MsgNeither == "Must specify either 'contents' or 'input_file' for conversion."

\* `Output format '${outputFormat}' requires 'output_file' to be specified.`
MsgOutputFile == "Output format requires 'output_file' to be specified."

ValidatedFormats(inF, outF) == Return([inputFormat |-> inF, outputFormat |-> outF])

\* Mutant: a conversion to the format of the input is refused.
validateConversionParams_RejectsSameFormat(params) ==
    IF TruthyStr(params.contents) /\ TruthyStr(params.inputFile)
    THEN ValidationError(MsgBoth)
    ELSE IF ~TruthyStr(params.contents) /\ ~TruthyStr(params.inputFile)
    THEN ValidationError(MsgNeither)
    ELSE LET inputFormat == validateInputFormat(params.inputFormat)
         IN  IF inputFormat.kind = "throw" THEN inputFormat
             ELSE LET outputFormat == validateOutputFormat(params.outputFormat)
                  IN  IF outputFormat.kind = "throw" THEN outputFormat
                      ELSE IF inputFormat.value = outputFormat.value
                      THEN ValidationError("Input and output format are the same")
                      ELSE IF requiresFileOutput(outputFormat.value)
                                /\ ~TruthyStr(params.outputFile)
                      THEN Throw("ValidationError", MsgOutputFile,
                                 outputFormat.value, "")
                      ELSE ValidatedFormats(inputFormat.value, outputFormat.value)

validateConversionParams(params) ==
    IF TruthyStr(params.contents) /\ TruthyStr(params.inputFile)
    THEN ValidationError(MsgBoth)
    ELSE IF ~TruthyStr(params.contents) /\ ~TruthyStr(params.inputFile)
    THEN ValidationError(MsgNeither)
    ELSE LET inputFormat == validateInputFormat(params.inputFormat)
         IN  IF inputFormat.kind = "throw" THEN inputFormat
             ELSE LET outputFormat == validateOutputFormat(params.outputFormat)
                  IN  IF outputFormat.kind = "throw" THEN outputFormat
                      ELSE IF requiresFileOutput(outputFormat.value)
                                /\ ~TruthyStr(params.outputFile)
                      THEN Throw("ValidationError", MsgOutputFile,
                                 outputFormat.value, "")
                      ELSE ValidatedFormats(inputFormat.value, outputFormat.value)

-----------------------------------------------------------------------------
(* validateConversionParams applied to drawn requests.                     *)

ContentsValues == { Undefined, Some(""), Some("# Hello") }

InputFileValues == { Undefined, Some(""), Some("input.md") }

OutputFileValues == { Undefined, Some(""), Some("output.pdf") }

ParamInputTokens ==
    TenCanonicalTokens \cup
    { <<"P","D","F">>, <<"T","X","T">>, <<"H","t","m","l">>, <<"x","y","z">>, <<>> }

ParamOutputTokens ==
    TenCanonicalTokens \cup
    { <<"P","D","F">>, <<"D","o","c","x">>, <<"t","x","t">>, <<"a","b","c">>, <<>> }

ParamsSet ==
    [ contents     : ContentsValues,
      inputFile    : InputFileValues,
      inputFormat  : ParamInputTokens,
      outputFormat : ParamOutputTokens,
      outputFile   : OutputFileValues ]

ParamsInit ==
    /\ call \in { [op |-> "pending", params |-> p] : p \in ParamsSet }
    /\ result = NoResult
    /\ NoEnvironment

ValidateConversionParamsCall ==
    /\ call.op = "pending"
    /\ call' = [call EXCEPT !.op = "validateConversionParams"]
    /\ result' = validateConversionParams(call.params)
    /\ UNCHANGED <<env, fs, chmodLog, requests>>

ParamsNext == ValidateConversionParamsCall

ParamsSpec == ParamsInit /\ [][ParamsNext]_vars

-----------------------------------------------------------------------------
(* validateConversionParams: properties.  Inline content is supplied when  *)
(* the contents field is present, the empty document included; an input or *)
(* output file is supplied when the field holds a path (the empty string   *)
(* names no file).                                                         *)

HasContents(p) == IsDefined(p.contents)

HasInputFile(p) == TruthyStr(p.inputFile)

HasOutputFile(p) == TruthyStr(p.outputFile)

InputCapableTokens == TenCanonicalTokens \ { PdfToken }

NormalizedToken(t) ==
    IF toLowerCase(t) = <<"t","x","t">> THEN PlainToken ELSE toLowerCase(t)

IsValidationError(r, text) ==
    r.kind = "throw" /\ r.name = "ValidationError" /\ r.text = text

\* C2: whenever both contents and input_file are supplied, whatever their
\* values, validateConversionParams throws the ValidationError "Cannot
\* specify both" and returns no formats.
C2_BothSourcesAlwaysRejected ==
    (call.op = "validateConversionParams"
       /\ IsDefined(call.params.contents) /\ IsDefined(call.params.inputFile)) =>
        IsValidationError(result, MsgBoth)

\* C3: validateConversionParams throws "Must specify either" if and only if
\* neither contents nor input_file is supplied; in particular a request whose
\* only source is the empty document is not rejected as missing a source.
C3_NeitherIffNoSource ==
    call.op = "validateConversionParams" =>
        ( IsValidationError(result, MsgNeither)
          <=> (~HasContents(call.params) /\ ~HasInputFile(call.params)) )

\* The five rules of parameter validation, and the error each one raises.
RuleViolated(p, n) ==
    CASE n = 1 -> HasContents(p) /\ HasInputFile(p)
      [] n = 2 -> ~HasContents(p) /\ ~HasInputFile(p)
      [] n = 3 -> NormalizedToken(p.inputFormat) \notin InputCapableTokens
      [] n = 4 -> NormalizedToken(p.outputFormat) \notin TenCanonicalTokens
      [] n = 5 -> /\ NormalizedToken(p.outputFormat) \in FileOnlyTokens
                  /\ ~HasOutputFile(p)

IsErrorOfRule(r, p, n) ==
    CASE n = 1 -> IsValidationError(r, MsgBoth)
      [] n = 2 -> IsValidationError(r, MsgNeither)
      [] n = 3 -> IsUnsupportedFormat(r) /\ r.format = p.inputFormat
      [] n = 4 -> IsUnsupportedFormat(r) /\ r.format = p.outputFormat /\ r.context = ""
      [] n = 5 -> IsValidationError(r, MsgOutputFile)

\* C4: when a request violates more than one of the five rules, the error is
\* that of the earliest violated rule in the order both sources, no source,
\* input format, output format, missing output file.
C4_EarliestViolatedRuleWins ==
    call.op = "validateConversionParams" =>
        LET p        == call.params
            violated == { n \in 1..5 : RuleViolated(p, n) }
        IN  Cardinality(violated) > 1 =>
                \E n \in violated :
                    /\ \A m \in violated : n <= m
                    /\ IsErrorOfRule(result, p, n)

\* C5: for a request with exactly one content source and valid format
\* tokens, validateConversionParams throws the ValidationError naming
\* output_file if and only if the normalized output format is pdf, docx, epub
\* or odt and there is no output file, and otherwise returns the two
\* normalized formats.
C5_OutputFileRequiredExactly ==
    LET p == call.params
    IN  ( /\ call.op = "validateConversionParams"
          /\ HasContents(p) # HasInputFile(p)
          /\ NormalizedToken(p.inputFormat) \in InputCapableTokens
          /\ NormalizedToken(p.outputFormat) \in TenCanonicalTokens ) =>
            IF NormalizedToken(p.outputFormat) \in FileOnlyTokens
                 /\ ~HasOutputFile(p)
            THEN IsValidationError(result, MsgOutputFile)
            ELSE result = ValidatedFormats(NormalizedToken(p.inputFormat),
                                           NormalizedToken(p.outputFormat))

-----------------------------------------------------------------------------
(* @std/path on segment sequences, and the filesystem.                     *)

Root == "/"

isAbsolute(p) == Len(p) > 0 /\ p[1] = Root

Last(q) == q[Len(q)]

Front(q) == SubSeq(q, 1, Len(q) - 1)

\* normalize: drop "." segments, resolve ".." against the preceding segment
\* (a ".." at the root of an absolute path is dropped, a leading ".." of a
\* relative path is kept); the empty relative path is ".".
RECURSIVE NormSegs(_, _, _)
NormSegs(abs, rest, acc) ==
    IF rest = <<>> THEN acc
    ELSE LET seg == Head(rest)
         IN  IF seg = "." THEN NormSegs(abs, Tail(rest), acc)
             ELSE IF seg = ".."
             THEN IF acc # <<>> /\ Last(acc) # ".."
                  THEN NormSegs(abs, Tail(rest), Front(acc))
                  ELSE IF abs THEN NormSegs(abs, Tail(rest), acc)
                       ELSE NormSegs(abs, Tail(rest), Append(acc, seg))
             ELSE NormSegs(abs, Tail(rest), Append(acc, seg))

normalize(p) ==
    IF p = <<>> THEN <<".">>
    ELSE IF isAbsolute(p) THEN <<Root>> \o NormSegs(TRUE, Tail(p), <<>>)
    ELSE LET n == NormSegs(FALSE, p, <<>>)
         IN  IF n = <<>> THEN <<".">> ELSE n

\* join(a, b): the non-empty arguments concatenated with a separator, then
\* normalized; a leading separator of b is absorbed by the one before it.
join(a, b) ==
    IF a = <<>> THEN normalize(b)
    ELSE IF b = <<>> THEN normalize(a)
    ELSE normalize(a \o (IF isAbsolute(b) THEN Tail(b) ELSE b))

\* dirname: the path without its last segment.
dirname(p) ==
    IF p = <<>> THEN <<".">>
    ELSE IF isAbsolute(p) THEN (IF Len(p) <= 2 THEN <<Root>> ELSE Front(p))
    ELSE IF Len(p) = 1 THEN <<".">> ELSE Front(p)

\* Deno.cwd()
cwd == <<Root, "work">>

\* The file a path names: relative paths are taken from the working directory.
AbsolutePath(p) == IF isAbsolute(p) THEN normalize(p) ELSE join(cwd, p)

\* exists(path, { isFile: true })
existsFile(path) ==
    LET a == AbsolutePath(path)
    IN  a \in DOMAIN fs /\ fs[a].type = "file"

-----------------------------------------------------------------------------
(* filters.ts                                                              *)

\* `a || b` on optional environment strings
OrElse(o, fallback) == IF o # Undefined /\ o[1] # <<>> THEN o[1] ELSE fallback

getHomeDir ==
    IF env.os = "windows"
    THEN OrElse(env.USERPROFILE, OrElse(env.HOME, <<Root>>))
    ELSE OrElse(env.HOME, <<Root>>)

getPandocFiltersDir == join(join(getHomeDir, <<".pandoc">>), <<"filters">>)

FilterNotFoundError(filterName, searchPaths) ==
    [kind |-> "throw", name |-> "FilterNotFoundError",
     filterName |-> filterName, searchPaths |-> searchPaths]

\* A successful resolution: the path returned, the search paths pushed so far
\* (each push is followed by the exists() probe of that path, so this is also
\* the list of probes made) and the file handed to makeExecutable.
Resolved(path, searchPaths) ==
    [outcome |-> Return(path), searchPaths |-> searchPaths,
     makeExecutable |-> <<path>>]

NotResolved(filterName, searchPaths) ==
    [outcome |-> FilterNotFoundError(filterName, searchPaths),
     searchPaths |-> searchPaths, makeExecutable |-> <<>>]

\* Mutant: step 3 (defaults file directory) is tried before step 2 (CWD).
resolveFilterPath_AuxBeforeCwd(filterName, defaultsFileDir) ==
    LET sp1     == IF isAbsolute(filterName) THEN <<filterName>> ELSE <<>>
        auxPath == join(defaultsFileDir[1], filterName)
        sp2     == IF defaultsFileDir # Undefined /\ defaultsFileDir[1] # <<>>
                   THEN Append(sp1, auxPath) ELSE sp1
        cwdPath == join(cwd, filterName)
        sp3     == Append(sp2, cwdPath)
        pandocFiltersPath == join(getPandocFiltersDir, filterName)
        sp4     == Append(sp3, pandocFiltersPath)
    IN  IF isAbsolute(filterName) /\ existsFile(filterName)
        THEN Resolved(filterName, sp1)
        ELSE IF sp2 # sp1 /\ existsFile(auxPath) THEN Resolved(auxPath, sp2)
        ELSE IF existsFile(cwdPath) THEN Resolved(cwdPath, sp3)
        ELSE IF existsFile(pandocFiltersPath) THEN Resolved(pandocFiltersPath, sp4)
        ELSE NotResolved(filterName, sp4)

\* Mutant: every documented location is listed, tried or not.
resolveFilterPath_ListsAllFour(filterName, defaultsFileDir) ==
    LET cwdPath == join(cwd, filterName)
        auxGiven == defaultsFileDir # Undefined /\ defaultsFileDir[1] # <<>>
        defaultsDirPath == IF defaultsFileDir = Undefined THEN filterName
                           ELSE join(defaultsFileDir[1], filterName)
        pandocFiltersPath == join(getPandocFiltersDir, filterName)
        all == <<filterName, cwdPath, defaultsDirPath, pandocFiltersPath>>
    IN  IF isAbsolute(filterName) /\ existsFile(filterName)
        THEN Resolved(filterName, SubSeq(all, 1, 1))
        ELSE IF existsFile(cwdPath) THEN Resolved(cwdPath, SubSeq(all, 1, 2))
        ELSE IF auxGiven /\ existsFile(defaultsDirPath)
        THEN Resolved(defaultsDirPath, SubSeq(all, 1, 3))
        ELSE IF existsFile(pandocFiltersPath) THEN Resolved(pandocFiltersPath, all)
        ELSE NotResolved(filterName, all)

resolveFilterPath(filterName, defaultsFileDir) ==
    LET \* 1. Try absolute path
        sp1     == IF isAbsolute(filterName) THEN <<filterName>> ELSE <<>>
        \* 2. Try relative to CWD
        cwdPath == join(cwd, filterName)
        sp2     == Append(sp1, cwdPath)
        \* 3. Try relative to defaults file directory: `if (defaultsFileDir)`
        auxGiven == defaultsFileDir # Undefined /\ defaultsFileDir[1] # <<>>
        defaultsDirPath == join(defaultsFileDir[1], filterName)
        sp3     == IF auxGiven THEN Append(sp2, defaultsDirPath) ELSE sp2
        \* 4. Try ~/.pandoc/filters/
        pandocFiltersPath == join(getPandocFiltersDir, filterName)
        sp4     == Append(sp3, pandocFiltersPath)
    IN  IF isAbsolute(filterName) /\ existsFile(filterName)
        THEN Resolved(filterName, sp1)
        ELSE IF existsFile(cwdPath) THEN Resolved(cwdPath, sp2)
        ELSE IF auxGiven /\ existsFile(defaultsDirPath)
        THEN Resolved(defaultsDirPath, sp3)
        ELSE IF existsFile(pandocFiltersPath) THEN Resolved(pandocFiltersPath, sp4)
        ELSE NotResolved(filterName, sp4)

\* Mutant: the permission change is attempted on every platform.
makeExecutable_OnEveryPlatform(filePath, ok, fsNow, logNow) ==
    [ fs  |-> IF ok THEN [fsNow EXCEPT ![AbsolutePath(filePath)].mode = "0o755"]
              ELSE fsNow,
      log |-> Append(logNow, [path |-> filePath, ok |-> ok]) ]

\* makeExecutable(filePath): on a non-Windows system, Deno.chmod(filePath,
\* 0o755); a failure is caught and logged.  `ok` is whether the chmod call
\* succeeds.  Gives the filesystem and the chmod log after the call.
makeExecutable(filePath, ok, fsNow, logNow) ==
    IF env.os = "windows" THEN [fs |-> fsNow, log |-> logNow]
    ELSE [ fs  |-> IF ok THEN [fsNow EXCEPT ![AbsolutePath(filePath)].mode = "0o755"]
                   ELSE fsNow,
           log |-> Append(logNow, [path |-> filePath, ok |-> ok]) ]

-----------------------------------------------------------------------------
(* resolveFilterPath applied to drawn names, directories and filesystems.  *)

RelativeFilter == <<"f.lua">>

DottedFilter == <<"sub", "..", "f.lua">>

AbsoluteFilter == <<Root, "opt", "f.lua">>

FilterNames == { RelativeFilter, DottedFilter, AbsoluteFilter }

AuxDir == <<Root, "proj", "cfg">>

AuxDirValues == { Undefined, Some(<<>>), Some(<<".">>), Some(AuxDir) }

UnixHome == <<Root, "home", "u">>

WindowsHome == <<Root, "Users", "u">>

Environments ==
    { [os |-> "linux",   HOME |-> Some(UnixHome), USERPROFILE |-> Undefined,
       PANDOC_PATH |-> Undefined],
      [os |-> "linux",   HOME |-> Undefined,      USERPROFILE |-> Undefined,
       PANDOC_PATH |-> Undefined],
      [os |-> "windows", HOME |-> Some(UnixHome), USERPROFILE |-> Some(WindowsHome),
       PANDOC_PATH |-> Undefined],
      [os |-> "windows", HOME |-> Some(UnixHome), USERPROFILE |-> Some(<<>>),
       PANDOC_PATH |-> Undefined] }

\* The places where a filter file or directory may exist.
FilterFsPaths ==
    { <<Root, "work", "f.lua">>, <<Root, "proj", "cfg", "f.lua">>,
      <<Root, "home", "u", ".pandoc", "filters", "f.lua">>,
      <<Root, ".pandoc", "filters", "f.lua">>,
      <<Root, "Users", "u", ".pandoc", "filters", "f.lua">>,
      <<Root, "opt", "f.lua">>, <<Root, "work", "opt", "f.lua">>,
      <<Root, "proj", "cfg", "opt", "f.lua">>,
      <<Root, "home", "u", ".pandoc", "filters", "opt", "f.lua">> }

MaxFsEntries == 3

FileEntry == [type |-> "file", mode |-> "0o644", content |-> [kind |-> "script"]]

DirEntry == [type |-> "dir", mode |-> "0o755", content |-> [kind |-> "none"]]

FilterFilesystems ==
    UNION { [d -> {FileEntry, DirEntry}] :
              d \in { x \in SUBSET FilterFsPaths : Cardinality(x) <= MaxFsEntries } }

FilterInit ==
    /\ call \in { [op |-> "pending", filterName |-> n, defaultsFileDir |-> a] :
                    n \in FilterNames, a \in AuxDirValues }
    /\ result = NoResult
    /\ env \in Environments
    /\ fs \in FilterFilesystems
    /\ chmodLog = << >>
    /\ requests = << >>

ResolveFilterPathCall ==
    /\ call.op = "pending"
    /\ LET r == resolveFilterPath(call.filterName, call.defaultsFileDir)
       IN  /\ call' = [call EXCEPT !.op = "resolveFilterPath"]
           /\ result' = r
           /\ \E ok \in BOOLEAN :
                LET after == IF r.makeExecutable = <<>>
                             THEN [fs |-> fs, log |-> chmodLog]
                             ELSE makeExecutable(r.makeExecutable[1], ok, fs, chmodLog)
                IN  fs' = after.fs /\ chmodLog' = after.log
    /\ UNCHANGED <<env, requests>>

FilterNext == ResolveFilterPathCall

FilterSpec == FilterInit /\ [][FilterNext]_vars

-----------------------------------------------------------------------------
(* resolveFilterPath: properties.                                          *)

\* An auxiliary directory is supplied when the argument names a directory
\* (the empty string names none).
AuxSupplied(a) == IsDefined(a) /\ a[1] # <<>>

HomeFilterDir == getHomeDir \o <<".pandoc", "filters">>

\* The documented locations that apply to a name, in the documented order.
FilterCandidates(name, aux) ==
    (IF isAbsolute(name) THEN <<name>> ELSE <<>>)
    \o << join(cwd, name) >>
    \o (IF AuxSupplied(aux) THEN << join(aux[1], name) >> ELSE <<>>)
    \o << join(HomeFilterDir, name) >>

FirstHit(cands) ==
    CHOOSE i \in 1..Len(cands) :
        existsFile(cands[i]) /\ \A j \in 1..(i - 1) : ~existsFile(cands[j])

IsFilterNotFound(r) == r.outcome.kind = "throw" /\ r.outcome.name = "FilterNotFoundError"

\* C10 as stated: whenever resolveFilterPath fails, the tried-paths list of
\* the FilterNotFoundError has exactly four entries: the name, cwd/name,
\* auxiliaryDir/name, home filter directory/name.
C10_TriedPathsAlwaysFour ==
    (call.op = "resolveFilterPath" /\ IsFilterNotFound(result)) =>
        Len(result.outcome.searchPaths) = 4

\* C10 amended: whenever resolveFilterPath fails, the tried-paths list holds
\* exactly the locations that were probed, in the documented order: the name
\* itself only if it is absolute, cwd/name, auxiliaryDir/name only if an
\* auxiliary directory was supplied, home filter directory/name.  It has four
\* entries exactly when the name is absolute and an auxiliary directory was
\* supplied, three when exactly one of the two holds, two otherwise; none of
\* the listed paths is an existing regular file.
C10_TriedPathsAreTheProbedLocations ==
    (call.op = "resolveFilterPath" /\ IsFilterNotFound(result)) =>
        LET tried == result.outcome.searchPaths
            abs   == isAbsolute(call.filterName)
            aux   == AuxSupplied(call.defaultsFileDir)
        IN  /\ tried = FilterCandidates(call.filterName, call.defaultsFileDir)
            /\ Len(tried) = 2 + (IF abs THEN 1 ELSE 0) + (IF aux THEN 1 ELSE 0)
            /\ result.outcome.filterName = call.filterName
            /\ \A i \in 1..Len(tried) : ~existsFile(tried[i])

\* A relative name looked up without an auxiliary directory failed after two
\* probes.
C10_Witness ==
    /\ call.op = "resolveFilterPath"
    /\ call.filterName = RelativeFilter
    /\ call.defaultsFileDir = Undefined
    /\ IsFilterNotFound(result)
    /\ Len(result.outcome.searchPaths) = 2

\* Every file of the filesystem other than `except` still has the mode it was
\* created with.
ModesUntouched(except) ==
    \A f \in DOMAIN fs :
        (f # except /\ fs[f].type = "file") => fs[f].mode = FileEntry.mode

\* C12 as stated: whenever resolveFilterPath finds a candidate, a permission
\* change is attempted on exactly that file and on no other, and the path is
\* returned whether the change succeeds or fails; when resolution fails, no
\* permission change is attempted.
C12_ChmodAttemptedOnResolvedFile ==
    call.op = "resolveFilterPath" =>
        IF result.outcome.kind = "return"
        THEN /\ Len(chmodLog) = 1
             /\ chmodLog[1].path = result.outcome.value
             /\ ModesUntouched(AbsolutePath(result.outcome.value))
        ELSE chmodLog = <<>> /\ ModesUntouched(<<>>)

\* C12 amended: on a platform other than Windows, whenever resolveFilterPath
\* finds a candidate, exactly one permission change is attempted, on that
\* resolved file, and the file gets mode 0o755 only if the change succeeds; on
\* Windows no permission change is attempted at all.  On every platform the
\* resolved path is the first existing candidate whether or not the change
\* succeeds, no other file changes mode, and a failed resolution attempts no
\* permission change.
C12_ChmodOnResolvedFileExceptOnWindows ==
    call.op = "resolveFilterPath" =>
        LET cands == FilterCandidates(call.filterName, call.defaultsFileDir)
        IN  IF \E i \in 1..Len(cands) : existsFile(cands[i])
            THEN LET hit  == cands[FirstHit(cands)]
                     file == AbsolutePath(hit)
                 IN  /\ result.outcome = Return(hit)
                     /\ result.makeExecutable = <<hit>>
                     /\ ModesUntouched(file)
                     /\ IF env.os = "windows"
                        THEN chmodLog = <<>> /\ fs[file].mode = FileEntry.mode
                        ELSE /\ Len(chmodLog) = 1
                             /\ chmodLog[1].path = hit
                             /\ fs[file].mode =
                                  IF chmodLog[1].ok THEN "0o755" ELSE FileEntry.mode
            ELSE /\ result.outcome.kind = "throw"
                 /\ result.makeExecutable = <<>>
                 /\ chmodLog = <<>>
                 /\ ModesUntouched(<<>>)

\* A filter present in two candidate locations was resolved to the first one
\* although the permission change on it failed; the other file was not touched.
C12_Witness ==
    /\ call.op = "resolveFilterPath"
    /\ call.filterName = RelativeFilter
    /\ call.defaultsFileDir = Some(AuxDir)
    /\ env.os = "linux"
    /\ existsFile(<<Root, "proj", "cfg", "f.lua">>)
    /\ result.outcome = Return(<<Root, "work", "f.lua">>)
    /\ chmodLog = << [path |-> <<Root, "work", "f.lua">>, ok |-> FALSE] >>
    /\ fs[<<Root, "work", "f.lua">>].mode = FileEntry.mode

-----------------------------------------------------------------------------
(* filters.ts: resolveFilterPaths.                                         *)

\* The loop of resolveFilterPaths over the names from index i on, with the
\* paths resolved so far, the files handed to makeExecutable so far and, per
\* name looked up so far, the paths it probed.  A throw of resolveFilterPath
\* leaves the loop: the caller gets the error only.
ResolvedList(resolvedPaths, madeExecutable, probed) ==
    [outcome |-> Return(resolvedPaths), makeExecutable |-> madeExecutable,
     probed |-> probed]

\* The loop of a resolveFilterPaths in which a name that cannot be resolved is
\* skipped and the loop goes on.
RECURSIVE resolveFrom_SkipsUnresolved(_, _, _, _, _, _)
resolveFrom_SkipsUnresolved(filterNames, defaultsFileDir, i, resolvedPaths,
                            madeExecutable, probed) ==
    IF i > Len(filterNames)
    THEN ResolvedList(resolvedPaths, madeExecutable, probed)
    ELSE LET r == resolveFilterPath(filterNames[i], defaultsFileDir)
         IN  resolveFrom_SkipsUnresolved(filterNames, defaultsFileDir, i + 1,
                 IF r.outcome.kind = "throw" THEN resolvedPaths
                 ELSE Append(resolvedPaths, r.outcome.value),
                 madeExecutable \o r.makeExecutable,
                 Append(probed, r.searchPaths))

RECURSIVE resolveFrom(_, _, _, _, _, _)
resolveFrom(filterNames, defaultsFileDir, i, resolvedPaths, madeExecutable, probed) ==
    IF i > Len(filterNames)
    THEN ResolvedList(resolvedPaths, madeExecutable, probed)
    ELSE LET r == resolveFilterPath(filterNames[i], defaultsFileDir)
         IN  IF r.outcome.kind = "throw"
             THEN [outcome |-> r.outcome, makeExecutable |-> madeExecutable,
                   probed |-> Append(probed, r.searchPaths)]
             ELSE resolveFrom(filterNames, defaultsFileDir, i + 1,
                              Append(resolvedPaths, r.outcome.value),
                              madeExecutable \o r.makeExecutable,
                              Append(probed, r.searchPaths))

\* Mutant: resolveFilterPaths with the loop that skips unresolved names.
resolveFilterPaths_SkipsUnresolved(filterNames, defaultsFileDir) ==
    resolveFrom_SkipsUnresolved(filterNames, defaultsFileDir, 1, <<>>, <<>>, <<>>)

resolveFilterPaths(filterNames, defaultsFileDir) ==
    resolveFrom(filterNames, defaultsFileDir, 1, <<>>, <<>>, <<>>)

\* The makeExecutable calls of one resolveFilterPaths run, in order; oks[i]
\* is whether the i-th chmod succeeds.
RECURSIVE makeAllExecutable(_, _, _, _)
makeAllExecutable(paths, oks, fsNow, logNow) ==
    IF paths = <<>> THEN [fs |-> fsNow, log |-> logNow]
    ELSE LET after == makeExecutable(Head(paths), Head(oks), fsNow, logNow)
         IN  makeAllExecutable(Tail(paths), Tail(oks), after.fs, after.log)

-----------------------------------------------------------------------------
(* resolveFilterPaths applied to drawn lists of names.                     *)

SecondFilter == <<"g.lua">>

UnresolvableFilter == <<"missing.lua">>

ListFilterNames == { RelativeFilter, SecondFilter, UnresolvableFilter }

MaxNames == 3

FilterNameLists == UNION { [1..n -> ListFilterNames] : n \in 0..MaxNames }

ListFsPaths ==
    { <<Root, "work", "f.lua">>, <<Root, "proj", "cfg", "f.lua">>,
      <<Root, "work", "g.lua">>, <<Root, "proj", "cfg", "g.lua">>,
      <<Root, "home", "u", ".pandoc", "filters", "g.lua">> }

ListFilesystems == UNION { [d -> {FileEntry, DirEntry}] : d \in SUBSET ListFsPaths }

FilterListInit ==
    /\ call \in { [op |-> "pending", filterNames |-> l, defaultsFileDir |-> a] :
                    l \in FilterNameLists, a \in {Undefined, Some(AuxDir)} }
    /\ result = NoResult
    /\ env = [os |-> "linux", HOME |-> Some(UnixHome), USERPROFILE |-> Undefined,
              PANDOC_PATH |-> Undefined]
    /\ fs \in ListFilesystems
    /\ chmodLog = << >>
    /\ requests = << >>

ResolveFilterPathsCall ==
    /\ call.op = "pending"
    /\ LET r == resolveFilterPaths(call.filterNames, call.defaultsFileDir)
       IN  /\ call' = [call EXCEPT !.op = "resolveFilterPaths"]
           /\ result' = r
           /\ \E oks \in [1..Len(r.makeExecutable) -> BOOLEAN] :
                LET after == makeAllExecutable(r.makeExecutable, oks, fs, chmodLog)
                IN  fs' = after.fs /\ chmodLog' = after.log
    /\ UNCHANGED <<env, requests>>

FilterListNext == ResolveFilterPathsCall

FilterListSpec == FilterListInit /\ [][FilterListNext]_vars

-----------------------------------------------------------------------------
(* defaults.ts: validateDefaultsFile.  The content of a file is kept as    *)
(* what reading and parsing it gives: "unreadable" (Deno.readTextFile      *)
(* throws), "error" (parse throws), or the parsed value: "null", "array",  *)
(* "string", "number", "boolean", "timestamp" (a scalar such as            *)
(* 2001-12-14, which the default schema of @std/yaml constructs as a Date)  *)
(* or "object" (a mapping) with its set of keys.                           *)

DefaultsFileError(text, filePath) ==
    [kind |-> "throw", name |-> "DefaultsFileError", text |-> text,
     filePath |-> filePath]

YamlObject(keys) == [kind |-> "object", keys |-> keys]

\* typeof parsed
typeOf(parsed) ==
    IF parsed.kind \in {"null", "array", "timestamp", "object"} THEN "object"
    ELSE parsed.kind

\* Array.isArray(parsed)
isArray(parsed) == parsed.kind = "array"

\* defaultsObj[key] !== undefined: only a mapping has own string keys.
hasKey(parsed, key) == parsed.kind = "object" /\ key \in parsed.keys

MsgNotObject ==
    "Defaults file must contain a YAML object/dictionary, not a list or primitive value"

MsgFromAndTo == "Defaults file should not specify both 'from' and 'to' formats."

\* Deno.stat inside exists() fails with ENOTDIR when a component of the path
\* before the last is a regular file.  exists() turns only NotFound into
\* false (and a PermissionDenied of the file system into true); every other
\* error of Deno.stat it throws again.
statFails(path) ==
    LET a == AbsolutePath(path)
    IN  \E n \in 1..(Len(a) - 1) :
            SubSeq(a, 1, n) \in DOMAIN fs /\ fs[SubSeq(a, 1, n)].type = "file"

NotADirectory ==
    [kind |-> "throw", name |-> "NotADirectory",
     text |-> "Not a directory (os error 20)", filePath |-> Undefined]

\* Lines 22-70, the try block: Deno.readTextFile, parse and the checks of the
\* parsed value.  A file that is no longer there, or cannot be read, makes
\* Deno.readTextFile throw, which the catch reports as a parse failure.
readAndCheck(filePath) ==
    IF ~existsFile(filePath)
    THEN DefaultsFileError("Failed to parse YAML", filePath)
    ELSE LET parsed == fs[AbsolutePath(filePath)].content
         IN  IF parsed.kind \in {"unreadable", "error"}
             THEN DefaultsFileError("Failed to parse YAML", filePath)
             ELSE IF parsed.kind = "null"
             THEN DefaultsFileError("Defaults file is empty", filePath)
             ELSE IF typeOf(parsed) # "object" \/ isArray(parsed)
             THEN DefaultsFileError(MsgNotObject, filePath)
             ELSE IF hasKey(parsed, "from") /\ hasKey(parsed, "to")
             THEN DefaultsFileError(MsgFromAndTo, filePath)
             ELSE Return(TRUE)

validateDefaultsFile(filePath) ==
    IF statFails(filePath) THEN NotADirectory
    ELSE IF ~existsFile(filePath)
    THEN DefaultsFileError("File not found", filePath)
    ELSE readAndCheck(filePath)

-----------------------------------------------------------------------------
(* validateDefaultsFile applied to drawn paths and files.                  *)

GoodDefaultsPath == <<Root, "proj", "cfg", "defaults.yaml">>

RelativeDefaults == <<"d.yaml">>

DefaultsPaths == { RelativeDefaults, GoodDefaultsPath, <<Root, "proj", "cfg", "none.yaml">> }

DefaultsKeys == { "from", "to", "standalone" }

ParsedValues ==
    { [kind |-> k] : k \in {"unreadable", "error", "null", "array", "string",
                            "number", "boolean", "timestamp"} }
    \cup { YamlObject(ks) : ks \in SUBSET DefaultsKeys }

DefaultsEntries ==
    { [type |-> "file", mode |-> "0o644", content |-> c] : c \in ParsedValues }
    \cup { DirEntry }

DefaultsFsPaths == { <<Root, "work", "d.yaml">>, GoodDefaultsPath }

DefaultsFilesystems ==
    UNION { [d -> DefaultsEntries] : d \in SUBSET DefaultsFsPaths }

DefaultsInit ==
    /\ call \in { [op |-> "pending", filePath |-> p] : p \in DefaultsPaths }
    /\ result = NoResult
    /\ env = [os |-> "linux", HOME |-> Some(UnixHome), USERPROFILE |-> Undefined,
              PANDOC_PATH |-> Undefined]
    /\ fs \in DefaultsFilesystems
    /\ chmodLog = << >>
    /\ requests = << >>

ValidateDefaultsFileCall ==
    /\ call.op = "pending"
    /\ call' = [call EXCEPT !.op = "validateDefaultsFile"]
    /\ result' = validateDefaultsFile(call.filePath)
    /\ UNCHANGED <<env, fs, chmodLog, requests>>

DefaultsNext == ValidateDefaultsFileCall

DefaultsSpec == DefaultsInit /\ [][DefaultsNext]_vars

IsDefaultsError(r, text) ==
    r.kind = "throw" /\ r.name = "DefaultsFileError" /\ r.text = text

\* C13: validateDefaultsFile(path) returns true exactly when path is an
\* existing regular file whose text parses to a mapping that does not hold
\* both a from key and a to key; otherwise it throws the first applicable of
\* File not found, Failed to parse YAML, empty (null), must contain a YAML
\* object (array or scalar), should not specify both from and to.
C13_TrueExactlyForMappings ==
    call.op = "validateDefaultsFile" =>
        LET file    == AbsolutePath(call.filePath)
            isFile  == file \in DOMAIN fs /\ fs[file].type = "file"
            doc     == fs[file].content
            mapping == doc.kind = "object"
            scalar  == doc.kind \in {"string", "number", "boolean", "timestamp"}
            both    == "from" \in doc.keys /\ "to" \in doc.keys
        IN  /\ result = Return(TRUE) <=> (isFile /\ mapping /\ ~both)
            /\ result.kind = "throw" =>
                 /\ result.filePath = call.filePath
                 /\ IF ~isFile THEN IsDefaultsError(result, "File not found")
                    ELSE IF doc.kind \in {"unreadable", "error"}
                    THEN IsDefaultsError(result, "Failed to parse YAML")
                    ELSE IF doc.kind = "null"
                    THEN IsDefaultsError(result, "Defaults file is empty")
                    ELSE IF doc.kind = "array" \/ scalar
                    THEN IsDefaultsError(result, MsgNotObject)
                    ELSE IsDefaultsError(result, MsgFromAndTo)

-----------------------------------------------------------------------------
(* converter.ts.  A command-line word is a sequence of strings: a flag is  *)
(* <<flag>>, a format is its token, a path its segments, any other string  *)
(* s is <<s>>.                                                             *)

Word(s) == <<s>>

\* constructor: pandocPath || Deno.env.get("PANDOC_PATH") || "pandoc"
pandocPath == OrElse(env.PANDOC_PATH, <<"pandoc">>)

\* Mutant: the filters are passed last to first.
RECURSIVE filterArgs_Reversed(_)
filterArgs_Reversed(filters) ==
    IF filters = <<>> THEN <<>>
    ELSE filterArgs_Reversed(Tail(filters)) \o <<Word("--filter"), Head(filters)>>

RECURSIVE filterArgs(_)
filterArgs(filters) ==
    IF filters = <<>> THEN <<>>
    ELSE <<Word("--filter"), Head(filters)>> \o filterArgs(Tail(filters))

\* options: referenceDoc (optional string), defaultsFile (optional path),
\* filters (optional list of paths), extraArgs (optional list of words)
buildArgs(inputFormat, outputFormat, options) ==
    <<Word("-f"), inputFormat, Word("-t"), outputFormat>>
    \o (IF outputFormat = PandocFormat.PDF
        THEN <<Word("--pdf-engine=xelatex"), Word("-V"), Word("geometry:margin=1in")>>
        ELSE <<>>)
    \o (IF TruthyStr(options.referenceDoc)
        THEN <<Word("--reference-doc"), Word(options.referenceDoc[1])>> ELSE <<>>)
    \o (IF IsDefined(options.defaultsFile) /\ options.defaultsFile[1] # <<>>
        THEN <<Word("--defaults"), options.defaultsFile[1]>> ELSE <<>>)
    \o (IF IsDefined(options.filters) /\ Len(options.filters[1]) > 0
        THEN filterArgs(options.filters[1]) ELSE <<>>)
    \o (IF IsDefined(options.extraArgs) /\ Len(options.extraArgs[1]) > 0
        THEN options.extraArgs[1] ELSE <<>>)

\* The subprocess of convertText: `${pandocPath} ${args}` with content on stdin.
convertTextCommand(content, inputFormat, outputFormat, options) ==
    [argv  |-> <<pandocPath>> \o buildArgs(inputFormat, outputFormat, options),
     stdin |-> Some(content)]

\* The subprocess of convertFile: `${pandocPath} ${args} ${inputFile} -o ${outputFile}`.
convertFileCommand(inputFile, outputFile, inputFormat, outputFormat, options) ==
    [argv  |-> <<pandocPath>> \o buildArgs(inputFormat, outputFormat, options)
               \o <<Word(inputFile), Word("-o"), Word(outputFile)>>,
     stdin |-> Undefined]

\* String.prototype.includes on character sequences
includesText(text, needle) ==
    \E i \in 0..(Len(text) - Len(needle)) :
        \A j \in 1..Len(needle) : text[i + j] = needle[j]

NotFoundNeedle == <<"n","o","t"," ","f","o","u","n","d">>

NoSuchFileNeedle == <<"n","o"," ","s","u","c","h"," ","f","i","l","e">>

EnoentNeedle == <<"e","n","o","e","n","t">>

PandocNotFoundError == [kind |-> "throw", name |-> "PandocNotFoundError"]

ConversionError(message) ==
    [kind |-> "throw", name |-> "ConversionError", message |-> message]

\* The catch block of convertText, for an Error with the given message.
classifyFailure(message) ==
    LET errorMessage == toLowerCase(message)
    IN  IF \/ includesText(errorMessage, NotFoundNeedle)
           \/ includesText(errorMessage, NoSuchFileNeedle)
           \/ includesText(errorMessage, EnoentNeedle)
        THEN PandocNotFoundError
        ELSE ConversionError(message)

\* Mutant: the message is searched as it is, without lower-casing it.
convertFileCatch_CaseSensitive(message) ==
    IF \/ includesText(message, NotFoundNeedle)
       \/ includesText(message, NoSuchFileNeedle)
       \/ includesText(message, EnoentNeedle)
    THEN PandocNotFoundError
    ELSE ConversionError(message)

\* The catch block of convertFile, for an Error with the given message.
convertFileCatch(message) ==
    LET errorMessage == toLowerCase(message)
    IN  IF \/ includesText(errorMessage, NotFoundNeedle)
           \/ includesText(errorMessage, NoSuchFileNeedle)
           \/ includesText(errorMessage, EnoentNeedle)
        THEN PandocNotFoundError
        ELSE ConversionError(message)

\* What running the subprocess can give: success, or an Error thrown by the
\* shell.  `located` tells whether the binary was found and started (the
\* Error then reports its non-zero exit) or could not be launched.
EngineOk == [kind |-> "ok"]

EngineError(located, message) ==
    [kind |-> "error", located |-> located, message |-> message]

MsgCommandNotFound ==
    <<"C","o","m","m","a","n","d"," ","n","o","t"," ","f","o","u","n","d">>

MsgNoSuchFileOs ==
    <<"N","o"," ","s","u","c","h"," ","f","i","l","e",
       " ","(","o","s"," ","e","r","r","o","r"," ","2",")">>

MsgEnoentSpawn ==
    <<"E","N","O","E","N","T",":"," ","s","p","a","w","n">>

MsgExitedWithCode ==
    <<"E","x","i","t","e","d"," ","w","i","t","h"," ","c","o","d","e",":"," ","1">>

MsgXelatexNotFound ==
    <<"x","e","l","a","t","e","x"," ","n","o","t"," ","f","o","u","n","d">>

MsgInputNoSuchFile ==
    <<"i","n",".","m","d",":"," ","N","o"," ","s","u","c","h"," ","f","i","l","e",
       " ","o","r"," ","d","i","r","e","c","t","o","r","y">>

\* Messages of a failed launch.
LaunchFailureMessages == { MsgCommandNotFound, MsgNoSuchFileOs, MsgEnoentSpawn }

\* Messages of a non-zero exit: the exit code alone, or the diagnostic the
\* engine printed.
ExitFailureMessages == { MsgExitedWithCode, MsgXelatexNotFound, MsgInputNoSuchFile }

EngineErrorMessages == LaunchFailureMessages \cup ExitFailureMessages

PandocBinary == <<Root, "usr", "bin", "pandoc">>

\* Whether the path the converter runs names an installed binary: the bare
\* name pandoc is looked up on PATH, any other path is taken as it is.
engineInstalled ==
    existsFile(IF pandocPath = <<"pandoc">> THEN PandocBinary ELSE pandocPath)

AllEngineOutcomes ==
    {EngineOk} \cup { EngineError(TRUE, m) : m \in ExitFailureMessages }
    \cup { EngineError(FALSE, m) : m \in LaunchFailureMessages }

\* The ways the subprocess can end on this system.
EngineOutcomes ==
    IF engineInstalled
    THEN {EngineOk} \cup { EngineError(TRUE, m) : m \in ExitFailureMessages }
    ELSE { EngineError(FALSE, m) : m \in LaunchFailureMessages }

-----------------------------------------------------------------------------
(* convertText and convertFile applied to drawn arguments.  A call builds   *)
(* its command line and starts the subprocess (stage "running"), then the  *)
(* awaited subprocess ends and the call returns or throws ("settled").     *)

MaxFilterArgs == 2

FilterArgPaths == { <<Root, "work", "f.lua">>, <<Root, "proj", "cfg", "g.lua">> }

ConversionOptionsSet ==
    [ referenceDoc : { Undefined, Some(""), Some("ref.docx") },
      defaultsFile : { Undefined, Some(<<>>), Some(GoodDefaultsPath) },
      filters      : { Undefined } \cup
                     { Some(l) : l \in UNION { [1..n -> FilterArgPaths] :
                                                 n \in 0..MaxFilterArgs } },
      extraArgs    : { Undefined, Some(<<>>),
                       Some(<<Word("--toc"), Word("--standalone")>>) } ]

ConverterInputFormats == { PandocFormat.Markdown, PandocFormat.DOCX }

ConverterOutputFormats == { PandocFormat.HTML, PandocFormat.PDF, PandocFormat.DOCX }

BadPandocPath == <<Root, "nonexistent", "pandoc">>

InstalledFilesystem ==
    ( PandocBinary :> [type |-> "file", mode |-> "0o755",
                       content |-> [kind |-> "binary"]] )

\* The engine is installed and found, installed but PANDOC_PATH points
\* elsewhere, or not installed.
ConverterSettings ==
    { [PANDOC_PATH |-> Undefined,           fs |-> InstalledFilesystem],
      [PANDOC_PATH |-> Some(BadPandocPath), fs |-> InstalledFilesystem],
      [PANDOC_PATH |-> Undefined,           fs |-> << >>] }

ConverterInit ==
    /\ call \in [ op : {"pending"}, stage : {"pending"},
                  content : {"", "# Hello"},
                  inputFile : {"in.md"}, outputFile : {"out.pdf"},
                  inputFormat : ConverterInputFormats,
                  outputFormat : ConverterOutputFormats,
                  options : ConversionOptionsSet,
                  spawned : {Undefined}, engine : {Undefined} ]
    /\ result = NoResult
    /\ \E c \in ConverterSettings :
          /\ env = [os |-> "linux", HOME |-> Some(UnixHome), USERPROFILE |-> Undefined,
                    PANDOC_PATH |-> c.PANDOC_PATH]
          /\ fs = c.fs
    /\ chmodLog = << >>
    /\ requests = << >>

\* convertText up to its await (lines 47-50).
ConvertTextStart ==
    /\ call.stage = "pending"
    /\ call' = [call EXCEPT !.op = "convertText", !.stage = "running",
                   !.spawned = Some(convertTextCommand(call.content, call.inputFormat,
                                        call.outputFormat, call.options))]
    /\ UNCHANGED <<result, env, fs, chmodLog, requests>>

\* convertFile up to its await (lines 90-93).
ConvertFileStart ==
    /\ call.stage = "pending"
    /\ call' = [call EXCEPT !.op = "convertFile", !.stage = "running",
                   !.spawned = Some(convertFileCommand(call.inputFile, call.outputFile,
                                        call.inputFormat, call.outputFormat,
                                        call.options))]
    /\ UNCHANGED <<result, env, fs, chmodLog, requests>>

\* convertText after its await: the captured output is returned, or the
\* catch block runs (lines 50-72).
ConvertTextSettle ==
    /\ call.op = "convertText" /\ call.stage = "running"
    /\ \E o \in EngineOutcomes :
          /\ call' = [call EXCEPT !.stage = "settled", !.engine = Some(o)]
          /\ result' = IF o.kind = "ok" THEN Return(<<"stdout", call.content>>)
                       ELSE classifyFailure(o.message)
    /\ UNCHANGED <<env, fs, chmodLog, requests>>

\* convertFile after its await: it returns nothing, or the catch block runs
\* (lines 93-113).
ConvertFileSettle ==
    /\ call.op = "convertFile" /\ call.stage = "running"
    /\ \E o \in EngineOutcomes :
          /\ call' = [call EXCEPT !.stage = "settled", !.engine = Some(o)]
          /\ result' = IF o.kind = "ok" THEN Return(<<>>)
                       ELSE convertFileCatch(o.message)
    /\ UNCHANGED <<env, fs, chmodLog, requests>>

ConverterNext ==
    \/ ConvertTextStart
    \/ ConvertFileStart
    \/ ConvertTextSettle
    \/ ConvertFileSettle

ConverterSpec == ConverterInit /\ [][ConverterNext]_vars

-----------------------------------------------------------------------------
(* The converter: properties.                                              *)

\* The documented command line, written out flag by flag.
FilterFlags(filters) ==
    [ i \in 1..(2 * Len(filters)) |->
        IF i % 2 = 1 THEN <<"--filter">> ELSE filters[i \div 2] ]

DocumentedArgs(c) ==
    LET o == c.options
    IN  << <<"-f">>, c.inputFormat, <<"-t">>, c.outputFormat >>
        \o (IF c.outputFormat = PdfToken
            THEN << <<"--pdf-engine=xelatex">>, <<"-V">>, <<"geometry:margin=1in">> >>
            ELSE <<>>)
        \o (IF TruthyStr(o.referenceDoc)
            THEN << <<"--reference-doc">>, <<o.referenceDoc[1]>> >> ELSE <<>>)
        \o (IF IsDefined(o.defaultsFile) /\ o.defaultsFile[1] # <<>>
            THEN << <<"--defaults">>, o.defaultsFile[1] >> ELSE <<>>)
        \o (IF IsDefined(o.filters) THEN FilterFlags(o.filters[1]) ELSE <<>>)
        \o (IF IsDefined(o.extraArgs) THEN o.extraArgs[1] ELSE <<>>)

\* C14: the command line of a conversion is, after the engine path, -f
\* <input format>, -t <output format>; --pdf-engine=xelatex and -V
\* geometry:margin=1in exactly for pdf output; --reference-doc <path> exactly
\* when a reference document is set; --defaults <path> exactly when a
\* defaults file is set; one --filter <path> pair per filter in the given
\* order; the extra arguments unchanged; for convertFile followed by the input
\* path and -o <output path> with nothing on standard input, for convertText
\* by nothing, with the content on standard input.
C14_CommandLineExact ==
    call.stage \in {"running", "settled"} =>
        LET cmd == call.spawned[1]
        IN  /\ Head(cmd.argv) = pandocPath
            /\ call.op = "convertText" =>
                 /\ Tail(cmd.argv) = DocumentedArgs(call)
                 /\ cmd.stdin = Some(call.content)
            /\ call.op = "convertFile" =>
                 /\ Tail(cmd.argv) = DocumentedArgs(call)
                        \o << <<call.inputFile>>, <<"-o">>, <<call.outputFile>> >>
                 /\ cmd.stdin = Undefined

\* A file conversion to pdf with a reference document, a defaults file, two
\* filters and extra arguments was started with the full command line.
C14_Witness ==
    /\ call.op = "convertFile"
    /\ call.stage = "running"
    /\ call.spawned[1].argv =
         << <<"pandoc">>, <<"-f">>, <<"m","a","r","k","d","o","w","n">>,
            <<"-t">>, <<"p","d","f">>,
            <<"--pdf-engine=xelatex">>, <<"-V">>, <<"geometry:margin=1in">>,
            <<"--reference-doc">>, <<"ref.docx">>,
            <<"--defaults">>, <<"/", "proj", "cfg", "defaults.yaml">>,
            <<"--filter">>, <<"/", "work", "f.lua">>,
            <<"--filter">>, <<"/", "proj", "cfg", "g.lua">>,
            <<"--toc">>, <<"--standalone">>,
            <<"in.md">>, <<"-o">>, <<"out.pdf">> >>

\* The failure messages that contain, in some letter case, "not found", "no
\* such file" or "enoent".
MessagesNamingNotFound ==
    { MsgCommandNotFound, MsgNoSuchFileOs, MsgEnoentSpawn, MsgXelatexNotFound,
      MsgInputNoSuchFile }

Failed(c) == c.stage = "settled" /\ c.engine[1].kind = "error"

\* C15: convertText and convertFile classify a failure alike: a message that
\* contains "not found", "no such file" or "enoent" in any letter case gives
\* PandocNotFoundError, every other message gives ConversionError carrying
\* that message; a conversion whose engine path names no binary fails with
\* PandocNotFoundError; a failed call returns nothing.
C15_FailureClassifiedByMessage ==
    Failed(call) =>
        LET m == call.engine[1].message
        IN  /\ result.kind = "throw"
            /\ m \in MessagesNamingNotFound => result = PandocNotFoundError
            /\ m \notin MessagesNamingNotFound => result = ConversionError(m)
            /\ ~engineInstalled => result = PandocNotFoundError

\* A file conversion run with an engine path that names no binary failed
\* with PandocNotFoundError on an upper-case ENOENT message.
C15_Witness ==
    /\ call.op = "convertFile"
    /\ env.PANDOC_PATH = Some(BadPandocPath)
    /\ Failed(call)
    /\ call.engine[1].message = MsgEnoentSpawn
    /\ result = PandocNotFoundError

\* C16: whenever the engine binary was located and ran but exited non-zero,
\* the caller gets ConversionError whatever the failure message says;
\* PandocNotFoundError is raised only when the binary could not be located or
\* executed.
C16_RanEngineNeverEngineNotFound ==
    Failed(call) =>
        /\ call.engine[1].located => result.name = "ConversionError"
        /\ result = PandocNotFoundError => ~call.engine[1].located

-----------------------------------------------------------------------------
(* mcp.ts: the CallToolRequestSchema handler.  One handler runs per tool   *)
(* call; its local variables are the fields of requests[r].  pc is the     *)
(* position of the handler: "received", then the awaited call it is about  *)
(* to make ("defaults", "filters", "convert"), "converting" while the      *)
(* engine subprocess runs, and "responded" or "failed" once settled.       *)
(* steps is the history of the steps the handler has run, spawned the      *)
(* subprocesses it has started, engine how its subprocess ended.           *)

NumReqs == 1

Reqs == 1..NumReqs

NoArgs ==
    [ contents |-> Undefined, input_file |-> Undefined, input_format |-> Undefined,
      output_format |-> Undefined, output_file |-> Undefined,
      reference_doc |-> Undefined, defaults_file |-> Undefined, filters |-> Undefined ]

IdleRequest ==
    [ pc |-> "idle", name |-> "", args |-> NoArgs,
      inputFormat |-> <<>>, outputFormat |-> <<>>,
      defaultsFileDir |-> Undefined, resolvedFilters |-> Undefined,
      steps |-> <<>>, spawned |-> <<>>, engine |-> Undefined,
      outcome |-> NoResult ]

ToolError(text) == [kind |-> "throw", name |-> "Error", text |-> text]

ToolResponse(via, text) == [kind |-> "response", via |-> via, text |-> text]

\* Mutant: an omitted output format follows the input format.
paramsOf_OutputFollowsInput(args) ==
    [ contents     |-> args.contents,
      inputFile    |-> args.input_file,
      inputFormat  |-> OrElse(args.input_format, PandocFormat.Markdown),
      outputFormat |-> OrElse(args.output_format,
                              OrElse(args.input_format, PandocFormat.Markdown)),
      outputFile   |-> args.output_file ]

\* The ConversionParams the handler builds from the tool arguments.
paramsOf(args) ==
    [ contents     |-> args.contents,
      inputFile    |-> args.input_file,
      inputFormat  |-> OrElse(args.input_format, PandocFormat.Markdown),
      outputFormat |-> OrElse(args.output_format, PandocFormat.Markdown),
      outputFile   |-> args.output_file ]

TruthyPath(o) == IsDefined(o) /\ o[1] # <<>>

\* `if (args.filters && Array.isArray(args.filters))`: filters is undefined
\* or an array, and every array is truthy.
stageAfterDefaults(args) == IF IsDefined(args.filters) THEN "filters" ELSE "convert"

\* `if (args.defaults_file)`
stageAfterValidation(args) ==
    IF TruthyPath(args.defaults_file) THEN "defaults" ELSE stageAfterDefaults(args)

optionsOf(q) ==
    [ referenceDoc |-> q.args.reference_doc,
      defaultsFile |-> q.args.defaults_file,
      filters      |-> q.resolvedFilters,
      extraArgs    |-> Undefined ]

\* Mutant: a failing step leaves the request where it was, to be tried again.
Fail_TriesAgain(q, step, error) == q

Fail(q, step, error) ==
    [q EXCEPT !.pc = "failed", !.steps = Append(@, step), !.outcome = error]

\* Lines 86-102: the tool name check and validateConversionParams.
Validate(r) ==
    LET q == requests[r]
        v == validateConversionParams(paramsOf(q.args))
    IN  /\ q.pc = "received"
        /\ requests' = [requests EXCEPT ![r] =
              IF q.name # "convert-contents"
              THEN [q EXCEPT !.pc = "failed", !.outcome = ToolError("Unknown tool")]
              ELSE IF v.kind = "throw" THEN Fail(q, "validate", v)
              ELSE [q EXCEPT !.pc = stageAfterValidation(q.args),
                             !.steps = Append(@, "validate"),
                             !.inputFormat = v.value.inputFormat,
                             !.outputFormat = v.value.outputFormat]]
        /\ UNCHANGED <<call, result, env, fs, chmodLog>>

\* Mutant: a failure of validateDefaultsFile is swallowed.
CheckDefaults_IgnoresFailure(r) ==
    LET q == requests[r]
    IN  /\ q.pc = "defaults"
        /\ requests' = [requests EXCEPT ![r] =
              [q EXCEPT !.pc = stageAfterDefaults(q.args),
                        !.steps = Append(@, "defaults"),
                        !.defaultsFileDir = Some(dirname(q.args.defaults_file[1]))]]
        /\ UNCHANGED <<call, result, env, fs, chmodLog>>

\* Lines 105-109: validateDefaultsFile and dirname.
CheckDefaults(r) ==
    LET q == requests[r]
        v == validateDefaultsFile(q.args.defaults_file[1])
    IN  /\ q.pc = "defaults"
        /\ requests' = [requests EXCEPT ![r] =
              IF v.kind = "throw" THEN Fail(q, "defaults", v)
              ELSE [q EXCEPT !.pc = stageAfterDefaults(q.args),
                             !.steps = Append(@, "defaults"),
                             !.defaultsFileDir = Some(dirname(q.args.defaults_file[1]))]]
        /\ UNCHANGED <<call, result, env, fs, chmodLog>>

\* Mutant: the auxiliary directory is one variable shared by all handlers.
ResolveFilters_SharedAuxDir(r) ==
    LET q    == requests[r]
        dirs == { requests[o].defaultsFileDir : o \in DOMAIN requests } \ {Undefined}
        dir  == IF dirs = {} THEN Undefined ELSE CHOOSE d \in dirs : TRUE
        v    == resolveFilterPaths(q.args.filters[1], dir)
    IN  /\ q.pc = "filters"
        /\ requests' = [requests EXCEPT ![r] =
              IF v.outcome.kind = "throw" THEN Fail(q, "filters", v.outcome)
              ELSE [q EXCEPT !.pc = "convert",
                             !.steps = Append(@, "filters"),
                             !.resolvedFilters = Some(v.outcome.value)]]
        /\ \E oks \in [1..Len(v.makeExecutable) -> BOOLEAN] :
              LET after == makeAllExecutable(v.makeExecutable, oks, fs, chmodLog)
              IN  fs' = after.fs /\ chmodLog' = after.log
        /\ UNCHANGED <<call, result, env>>

\* Mutant: the filters are resolved without the auxiliary directory.
ResolveFilters_IgnoresAuxDir(r) ==
    LET q == requests[r]
        v == resolveFilterPaths(q.args.filters[1], Undefined)
    IN  /\ q.pc = "filters"
        /\ requests' = [requests EXCEPT ![r] =
              IF v.outcome.kind = "throw" THEN Fail(q, "filters", v.outcome)
              ELSE [q EXCEPT !.pc = "convert",
                             !.steps = Append(@, "filters"),
                             !.resolvedFilters = Some(v.outcome.value)]]
        /\ \E oks \in [1..Len(v.makeExecutable) -> BOOLEAN] :
              LET after == makeAllExecutable(v.makeExecutable, oks, fs, chmodLog)
              IN  fs' = after.fs /\ chmodLog' = after.log
        /\ UNCHANGED <<call, result, env>>

\* Lines 112-118: resolveFilterPaths, with the chmod calls it makes.
ResolveFilters(r) ==
    LET q == requests[r]
        v == resolveFilterPaths(q.args.filters[1], q.defaultsFileDir)
    IN  /\ q.pc = "filters"
        /\ requests' = [requests EXCEPT ![r] =
              IF v.outcome.kind = "throw" THEN Fail(q, "filters", v.outcome)
              ELSE [q EXCEPT !.pc = "convert",
                             !.steps = Append(@, "filters"),
                             !.resolvedFilters = Some(v.outcome.value)]]
        /\ \E oks \in [1..Len(v.makeExecutable) -> BOOLEAN] :
              LET after == makeAllExecutable(v.makeExecutable, oks, fs, chmodLog)
              IN  fs' = after.fs /\ chmodLog' = after.log
        /\ UNCHANGED <<call, result, env>>

\* Mutant: conversions queue up behind one another, one subprocess at a time.
Convert_OneAtATime(r) ==
    LET q == requests[r]
        a == q.args
    IN  /\ q.pc = "convert"
        /\ \A o \in DOMAIN requests : o # r => requests[o].pc # "converting"
        /\ requests' = [requests EXCEPT ![r] =
              IF TruthyStr(a.contents)
              THEN [q EXCEPT !.pc = "converting",
                             !.steps = Append(@, "convert"),
                             !.spawned = Append(@, [via |-> "convertText"] @@
                                 convertTextCommand(a.contents[1], q.inputFormat,
                                                    q.outputFormat, optionsOf(q)))]
              ELSE IF TruthyStr(a.input_file) /\ TruthyStr(a.output_file)
              THEN [q EXCEPT !.pc = "converting",
                             !.steps = Append(@, "convert"),
                             !.spawned = Append(@, [via |-> "convertFile"] @@
                                 convertFileCommand(a.input_file[1], a.output_file[1],
                                     q.inputFormat, q.outputFormat, optionsOf(q)))]
              ELSE Fail(q, "convert", ToolError(
                       "Invalid arguments: must provide contents or both input_file and output_file"))]
        /\ UNCHANGED <<call, result, env, fs, chmodLog>>

\* Lines 121-170 up to the await: the dispatch to convertText or convertFile,
\* which starts the engine subprocess, or the final throw.
Convert(r) ==
    LET q == requests[r]
        a == q.args
    IN  /\ q.pc = "convert"
        /\ requests' = [requests EXCEPT ![r] =
              IF TruthyStr(a.contents)
              THEN [q EXCEPT !.pc = "converting",
                             !.steps = Append(@, "convert"),
                             !.spawned = Append(@, [via |-> "convertText"] @@
                                 convertTextCommand(a.contents[1], q.inputFormat,
                                                    q.outputFormat, optionsOf(q)))]
              ELSE IF TruthyStr(a.input_file) /\ TruthyStr(a.output_file)
              THEN [q EXCEPT !.pc = "converting",
                             !.steps = Append(@, "convert"),
                             !.spawned = Append(@, [via |-> "convertFile"] @@
                                 convertFileCommand(a.input_file[1], a.output_file[1],
                                     q.inputFormat, q.outputFormat, optionsOf(q)))]
              ELSE Fail(q, "convert", ToolError(
                       "Invalid arguments: must provide contents or both input_file and output_file"))]
        /\ UNCHANGED <<call, result, env, fs, chmodLog>>

\* Mutant: the handler answers with success however the subprocess ended.
EngineExit_AlwaysResponds(r, outcome) ==
    LET q == requests[r]
        p == Last(q.spawned)
    IN  /\ q.pc = "converting"
        /\ outcome \in EngineOutcomes
        /\ requests' = [requests EXCEPT ![r] =
              IF p.via = "convertText"
              THEN [q EXCEPT !.pc = "responded", !.engine = Some(outcome),
                             !.outcome = ToolResponse("convertText",
                                             <<"stdout", q.args.contents[1]>>)]
              ELSE [q EXCEPT !.pc = "responded", !.engine = Some(outcome),
                             !.outcome = ToolResponse("convertFile",
                                             <<"Successfully converted",
                                               q.args.input_file[1], q.args.output_file[1]>>)]]
        /\ UNCHANGED <<call, result, env, fs, chmodLog>>

\* The engine subprocess ends: the awaited convertText / convertFile returns
\* or throws, and the handler returns its response or rejects.
EngineExit(r, outcome) ==
    LET q == requests[r]
        p == Last(q.spawned)
    IN  /\ q.pc = "converting"
        /\ outcome \in EngineOutcomes
        /\ requests' = [requests EXCEPT ![r] =
              IF outcome.kind = "error"
              THEN [q EXCEPT !.pc = "failed", !.engine = Some(outcome),
                             !.outcome = IF p.via = "convertText"
                                         THEN classifyFailure(outcome.message)
                                         ELSE convertFileCatch(outcome.message)]
              ELSE IF p.via = "convertText"
              THEN [q EXCEPT !.pc = "responded", !.engine = Some(outcome),
                             !.outcome = ToolResponse("convertText",
                                             <<"stdout", q.args.contents[1]>>)]
              ELSE [q EXCEPT !.pc = "responded", !.engine = Some(outcome),
                             !.outcome = ToolResponse("convertFile",
                                             <<"Successfully converted",
                                               q.args.input_file[1], q.args.output_file[1]>>)]]
        /\ UNCHANGED <<call, result, env, fs, chmodLog>>

\* The settled call is handed back to the transport; nothing of it remains.
Close(r) ==
    /\ requests[r].pc \in {"responded", "failed"}
    /\ requests' = [requests EXCEPT ![r] = IdleRequest]
    /\ chmodLog' = <<>>
    /\ UNCHANGED <<call, result, env, fs>>

-----------------------------------------------------------------------------
(* Tool calls drawn from small sets, on a fixed project directory.         *)

GoodDefaults == GoodDefaultsPath

BadDefaults == <<Root, "proj", "cfg", "list.yaml">>

MissingDefaults == <<Root, "proj", "cfg", "none.yaml">>

MissingFilter == <<"missing.lua">>

MaxFilters == 1

HandlerFilterLists ==
    UNION { [1..n -> {RelativeFilter, MissingFilter}] : n \in 0..MaxFilters }

HandlerArgs ==
    [ contents      : ContentsValues,
      input_file    : InputFileValues,
      input_format  : { Undefined, Some(<<>>), Some(<<"H","T","M","L">>), Some(PdfToken) },
      output_format : { Undefined, Some(<<"h","t","m","l">>), Some(<<"P","d","f">>),
                        Some(<<"x","y","z">>) },
      output_file   : OutputFileValues,
      reference_doc : { Undefined, Some("ref.docx") },
      defaults_file : { Undefined, Some(GoodDefaults), Some(BadDefaults),
                        Some(MissingDefaults) },
      filters       : { Undefined } \cup { Some(l) : l \in HandlerFilterLists } ]

HandlerCalls ==
    { <<"convert-contents", a>> : a \in HandlerArgs } \cup { <<"list-formats", NoArgs>> }

\* The filter f.lua lies next to the defaults file only.
ProjectFilesystem ==
    ( GoodDefaults :> [type |-> "file", mode |-> "0o644",
                       content |-> YamlObject({"standalone"})] )
    @@ ( BadDefaults :> [type |-> "file", mode |-> "0o644",
                         content |-> [kind |-> "array"]] )
    @@ ( <<Root, "proj", "cfg", "f.lua">> :> FileEntry )
    @@ ( <<Root, "proj", "cfg">> :> DirEntry )
    @@ ( PandocBinary :> [type |-> "file", mode |-> "0o755",
                          content |-> [kind |-> "binary"]] )

\* The transport calls the handler with a tool name and arguments.
Receive(r) ==
    /\ requests[r].pc = "idle"
    /\ \A o \in Reqs \ {r} : requests[o].pc = "idle"
    /\ \E c \in HandlerCalls :
          requests' = [requests EXCEPT ![r] =
              [IdleRequest EXCEPT !.pc = "received", !.name = c[1], !.args = c[2]]]
    /\ UNCHANGED <<call, result, env, fs, chmodLog>>

HandlerInit ==
    /\ call = [op |-> "none"]
    /\ result = NoResult
    /\ env \in { [os |-> "linux", HOME |-> Some(UnixHome), USERPROFILE |-> Undefined,
                  PANDOC_PATH |-> pp] : pp \in {Undefined, Some(BadPandocPath)} }
    /\ fs = ProjectFilesystem
    /\ chmodLog = << >>
    /\ requests = [r \in Reqs |-> IdleRequest]

HandlerNext ==
    \E r \in Reqs :
        \/ Receive(r)
        \/ Validate(r)
        \/ CheckDefaults(r)
        \/ ResolveFilters(r)
        \/ Convert(r)
        \/ \E o \in AllEngineOutcomes : EngineExit(r, o)
        \/ Close(r)

HandlerSpec == HandlerInit /\ [][HandlerNext]_vars

-----------------------------------------------------------------------------
(* The handler: properties.                                                *)

StepRank(step) ==
    CASE step = "validate" -> 1
      [] step = "defaults" -> 2
      [] step = "filters"  -> 3
      [] step = "convert"  -> 4

Ran(q, step) == \E i \in 1..Len(q.steps) : q.steps[i] = step

\* What a step of the pipeline gives for the arguments of a request.
StepResult(q, step) ==
    CASE step = "validate" -> validateConversionParams(paramsOf(q.args))
      [] step = "defaults" -> validateDefaultsFile(q.args.defaults_file[1])
      [] step = "filters"  ->
            resolveFilterPaths(q.args.filters[1],
                IF TruthyPath(q.args.defaults_file)
                THEN Some(dirname(q.args.defaults_file[1])) ELSE Undefined).outcome

Settled(q) == q.pc \in {"responded", "failed"}

\* C1: in every handling of a convert-contents request the steps run in the
\* order parameter validation, defaults-file validation (only if a defaults
\* file is given), filter resolution (only if filters are given), engine
\* invocation; a step runs only after every earlier step that ran succeeded,
\* so the engine subprocess is spawned only then; a failed step is the last
\* step of the request and its error is the one surfaced.  A request for pdf
\* with contents and no output file fails with ValidationError and spawns
\* nothing; an invalid defaults file together with a missing filter reports
\* DefaultsFileError.
C1_StepsInOrderFirstFailureSurfaces ==
    \A r \in Reqs :
        LET q == requests[r]
            a == q.args
            n == Len(q.steps)
        IN  q.name = "convert-contents" =>
            /\ \A i, j \in 1..n : i < j => StepRank(q.steps[i]) < StepRank(q.steps[j])
            /\ n > 0 => q.steps[1] = "validate"
            /\ Ran(q, "defaults") => IsDefined(a.defaults_file)
            /\ Ran(q, "filters") => IsDefined(a.filters)
            /\ \A i \in 1..(n - 1) : StepResult(q, q.steps[i]).kind = "return"
            /\ Ran(q, "convert") =>
                 /\ TruthyPath(a.defaults_file) => Ran(q, "defaults")
                 /\ IsDefined(a.filters) => Ran(q, "filters")
            /\ q.spawned # <<>> =>
                 /\ Len(q.spawned) = 1
                 /\ q.steps[n] = "convert"
            /\ (q.pc = "failed") =>
                 /\ n > 0
                 /\ q.outcome.kind = "throw"
                 /\ q.steps[n] # "convert" =>
                      /\ q.outcome = StepResult(q, q.steps[n])
                      /\ q.spawned = <<>>
            /\ (q.pc = "responded") =>
                 /\ q.steps[n] = "convert"
                 /\ q.outcome.kind = "response"
            /\ ( /\ Settled(q)
                 /\ TruthyStr(a.contents) /\ ~IsDefined(a.input_file)
                 /\ a.input_format \in {Undefined, Some(<<"H","T","M","L">>)}
                 /\ a.output_format = Some(<<"P","d","f">>)
                 /\ ~IsDefined(a.output_file) ) =>
                 /\ q.outcome.kind = "throw" /\ q.outcome.name = "ValidationError"
                 /\ q.spawned = <<>>
            /\ ( /\ Settled(q)
                 /\ StepResult(q, "validate").kind = "return"
                 /\ a.defaults_file \in {Some(BadDefaults), Some(MissingDefaults)}
                 /\ a.filters = Some(<<MissingFilter>>) ) =>
                 /\ q.outcome.kind = "throw" /\ q.outcome.name = "DefaultsFileError"

\* A request with an invalid defaults file and a missing filter has failed
\* in the defaults step, before filter resolution.
C1_Witness ==
    \E r \in Reqs :
        LET q == requests[r]
        IN  /\ q.pc = "failed"
            /\ q.args.defaults_file = Some(BadDefaults)
            /\ q.args.filters = Some(<<MissingFilter>>)
            /\ q.steps = <<"validate", "defaults">>
            /\ q.outcome.name = "DefaultsFileError"

SixTypedKinds ==
    { "PandocNotFoundError", "UnsupportedFormatError", "ValidationError",
      "ConversionError", "FilterNotFoundError", "DefaultsFileError" }

PassedValidation(q) ==
    /\ q.name = "convert-contents"
    /\ Ran(q, "validate")
    /\ StepResult(q, "validate").kind = "return"

\* C17: every request that passes parameter validation (and the defaults
\* and filter steps, when present) is dispatched to exactly one conversion,
\* the inline one if contents was supplied and the file-to-file one otherwise;
\* after validation the handler never fails for want of an output file, and
\* it never fails with an error outside the six typed kinds.
C17_ValidatedRequestIsDispatched ==
    \A r \in Reqs :
        LET q == requests[r]
        IN  PassedValidation(q) =>
            /\ Ran(q, "convert") =>
                 /\ Len(q.spawned) = 1
                 /\ q.spawned[1].via =
                      IF IsDefined(q.args.contents) THEN "convertText" ELSE "convertFile"
            /\ q.pc = "failed" => q.outcome.name \in SixTypedKinds

\* C18: a success response exists only for a request whose own engine run
\* ended successfully: the converted text comes from a successful convertText
\* run, the "Successfully converted <input> to <output>" confirmation from a
\* convertFile run that returned without error, and a failed request carries
\* an error and no success response.
C18_SuccessOnlyAfterEngineSuccess ==
    \A r \in Reqs :
        LET q == requests[r]
        IN  /\ q.outcome.kind = "response" =>
                 /\ q.pc = "responded"
                 /\ Len(q.spawned) = 1
                 /\ q.engine = Some(EngineOk)
                 /\ q.steps[Len(q.steps)] = "convert"
                 /\ q.outcome.via = q.spawned[1].via
                 /\ q.outcome.via = "convertText" =>
                        q.outcome.text = <<"stdout", q.args.contents[1]>>
                 /\ q.outcome.via = "convertFile" =>
                        q.outcome.text = <<"Successfully converted",
                                           q.args.input_file[1], q.args.output_file[1]>>
            /\ q.pc = "responded" => q.outcome.kind = "response"
            /\ q.pc = "failed" => q.outcome.kind = "throw"
            /\ (IsDefined(q.engine) /\ q.engine[1].kind = "error") =>
                   q.pc = "failed"

\* A file conversion whose engine run failed has an error and no confirmation.
C18_Witness ==
    \E r \in Reqs :
        LET q == requests[r]
        IN  /\ q.pc = "failed"
            /\ Len(q.spawned) = 1
            /\ q.spawned[1].via = "convertFile"
            /\ q.engine = Some(EngineError(TRUE, MsgExitedWithCode))
            /\ q.outcome = ConversionError(MsgExitedWithCode)

MarkdownToken == <<"m","a","r","k","d","o","w","n">>

\* C20: a tool call that omits input_format is validated and converted with
\* markdown as input format, one that omits output_format with markdown as
\* output format, each field on its own; a supplied non-empty token is the
\* one validated (a rejection echoes it) and, normalized, the one converted
\* with.
C20_OmittedFormatsDefaultToMarkdown ==
    \A r \in Reqs :
        LET q    == requests[r]
            a    == q.args
            used(o) == IF o = Undefined THEN MarkdownToken ELSE o[1]
            stated(o) == o = Undefined \/ o[1] # <<>>
        IN  ( /\ q.name = "convert-contents" /\ Ran(q, "validate")
              /\ stated(a.input_format) /\ stated(a.output_format) ) =>
            /\ (q.pc = "failed" /\ Len(q.steps) = 1
                  /\ q.outcome.name = "UnsupportedFormatError") =>
                   /\ q.outcome.format \in {used(a.input_format), used(a.output_format)}
                   /\ NormalizedToken(used(a.input_format)) \in InputCapableTokens =>
                        q.outcome.format = used(a.output_format)
            /\ ~(q.pc = "failed" /\ Len(q.steps) = 1) =>
                   /\ q.inputFormat = NormalizedToken(used(a.input_format))
                   /\ q.outputFormat = NormalizedToken(used(a.output_format))
                   /\ a.input_format = Undefined => q.inputFormat = MarkdownToken
                   /\ a.output_format = Undefined => q.outputFormat = MarkdownToken
                   /\ q.spawned # <<>> =>
                        SubSeq(q.spawned[1].argv, 2, 5) =
                            << <<"-f">>, q.inputFormat, <<"-t">>, q.outputFormat >>

\* A call that gave HTML as input format and no output format was converted
\* from html to markdown.
C20_Witness ==
    \E r \in Reqs :
        LET q == requests[r]
        IN  /\ q.args.input_format = Some(<<"H","T","M","L">>)
            /\ q.args.output_format = Undefined
            /\ q.pc = "responded"
            /\ SubSeq(q.spawned[1].argv, 2, 5) =
                 << <<"-f">>, <<"h","t","m","l">>, <<"-t">>, MarkdownToken >>

-----------------------------------------------------------------------------
(* Concurrent tool calls: the transport invokes the handler for a new call *)
(* while earlier calls are suspended at an await.                          *)

NumCalls == 2

Callers == 1..NumCalls

InlineCall == [NoArgs EXCEPT !.contents = Some("# Hello"),
                             !.output_format = Some(<<"h","t","m","l">>)]

ConcurrentCalls ==
    { InlineCall,
      [InlineCall EXCEPT !.input_format = Some(<<"H","T","M","L">>),
                         !.output_format = Undefined,
                         !.reference_doc = Some("ref.docx")],
      [NoArgs EXCEPT !.input_file = Some("input.md"),
                     !.output_file = Some("output.pdf"),
                     !.output_format = Some(<<"P","d","f">>),
                     !.defaults_file = Some(GoodDefaults),
                     !.filters = Some(<<RelativeFilter>>)],
      [InlineCall EXCEPT !.filters = Some(<<RelativeFilter>>)],
      [InlineCall EXCEPT !.defaults_file = Some(BadDefaults)],
      [InlineCall EXCEPT !.output_format = Some(<<"x","y","z">>)] }

\* The transport calls the handler, whatever the other handlers are doing.
Arrive(r) ==
    /\ requests[r].pc = "idle"
    /\ \E a \in ConcurrentCalls :
          requests' = [requests EXCEPT ![r] =
              [IdleRequest EXCEPT !.pc = "received", !.name = "convert-contents",
                                  !.args = a]]
    /\ UNCHANGED <<call, result, env, fs, chmodLog>>

ConcurrentInit ==
    /\ call = [op |-> "none"]
    /\ result = NoResult
    /\ env = [os |-> "linux", HOME |-> Some(UnixHome), USERPROFILE |-> Undefined,
              PANDOC_PATH |-> Undefined]
    /\ fs = ProjectFilesystem
    /\ chmodLog = << >>
    /\ requests = [r \in Callers |-> IdleRequest]

ConcurrentNext ==
    \E r \in Callers :
        \/ Arrive(r)
        \/ Validate(r)
        \/ CheckDefaults(r)
        \/ ResolveFilters(r)
        \/ Convert(r)
        \/ \E o \in AllEngineOutcomes : EngineExit(r, o)

ConcurrentSpec == ConcurrentInit /\ [][ConcurrentNext]_vars

\* What a call with arguments a does when it is the only call.
SoloAuxDir(a) ==
    IF TruthyPath(a.defaults_file) THEN Some(dirname(a.defaults_file[1])) ELSE Undefined

SoloFilters(a) == resolveFilterPaths(a.filters[1], SoloAuxDir(a)).outcome

SoloFormats(a) == validateConversionParams(paramsOf(a))

SoloOptions(a) ==
    [ referenceDoc |-> a.reference_doc,
      defaultsFile |-> a.defaults_file,
      filters      |-> IF IsDefined(a.filters) THEN Some(SoloFilters(a).value)
                       ELSE Undefined,
      extraArgs    |-> Undefined ]

SoloCommand(a) ==
    LET f == SoloFormats(a).value
    IN  IF TruthyStr(a.contents)
        THEN [via |-> "convertText"] @@
             convertTextCommand(a.contents[1], f.inputFormat, f.outputFormat,
                                SoloOptions(a))
        ELSE [via |-> "convertFile"] @@
             convertFileCommand(a.input_file[1], a.output_file[1], f.inputFormat,
                                f.outputFormat, SoloOptions(a))

\* The error of the first step that fails before the engine is started, or
\* NoResult when the engine is started.
SoloEarlyError(a) ==
    IF SoloFormats(a).kind = "throw" THEN SoloFormats(a)
    ELSE IF TruthyPath(a.defaults_file)
              /\ validateDefaultsFile(a.defaults_file[1]).kind = "throw"
    THEN validateDefaultsFile(a.defaults_file[1])
    ELSE IF IsDefined(a.filters) /\ SoloFilters(a).kind = "throw" THEN SoloFilters(a)
    ELSE IF ~TruthyStr(a.contents)
              /\ ~(TruthyStr(a.input_file) /\ TruthyStr(a.output_file))
    THEN ToolError("Invalid arguments: must provide contents or both input_file and output_file")
    ELSE NoResult

SoloOutcome(a, engine) ==
    IF SoloEarlyError(a) # NoResult THEN SoloEarlyError(a)
    ELSE IF engine.kind = "error"
    THEN (IF TruthyStr(a.contents) THEN classifyFailure(engine.message)
          ELSE convertFileCatch(engine.message))
    ELSE IF TruthyStr(a.contents)
    THEN ToolResponse("convertText", <<"stdout", a.contents[1]>>)
    ELSE ToolResponse("convertFile",
             <<"Successfully converted", a.input_file[1], a.output_file[1]>>)

\* C19: in every interleaving of concurrent convert-contents calls over one
\* filesystem and environment, each call's formats, auxiliary directory,
\* resolved filters, subprocess command line and outcome are those of the same
\* call run alone (with the same end of its own subprocess); nothing of a
\* call comes from another call.
C19_ConcurrentCallsAreIndependent ==
    \A r \in DOMAIN requests :
        LET q == requests[r]
            a == q.args
        IN  q.name = "convert-contents" =>
            /\ (Ran(q, "validate") /\ SoloFormats(a).kind = "return") =>
                   /\ q.inputFormat = SoloFormats(a).value.inputFormat
                   /\ q.outputFormat = SoloFormats(a).value.outputFormat
            /\ IsDefined(q.defaultsFileDir) => q.defaultsFileDir = SoloAuxDir(a)
            /\ IsDefined(q.resolvedFilters) =>
                   /\ SoloFilters(a).kind = "return"
                   /\ q.resolvedFilters = Some(SoloFilters(a).value)
            /\ q.spawned # <<>> =>
                   /\ SoloEarlyError(a) = NoResult
                   /\ q.spawned = << SoloCommand(a) >>
            /\ Settled(q) =>
                   /\ SoloEarlyError(a) # NoResult =>
                          /\ q.outcome = SoloEarlyError(a)
                          /\ q.spawned = <<>>
                   /\ SoloEarlyError(a) = NoResult =>
                          q.outcome = SoloOutcome(a, q.engine[1])

\* While a call that resolved its filter next to its defaults file waits for
\* its subprocess, another call has looked up the same filter name without a
\* defaults file and failed.
C19_Witness ==
    \E r1, r2 \in DOMAIN requests :
        /\ r1 # r2
        /\ requests[r1].pc = "converting"
        /\ requests[r1].defaultsFileDir = Some(<<Root, "proj", "cfg">>)
        /\ requests[r1].resolvedFilters = Some(<< <<Root, "proj", "cfg", "f.lua">> >>)
        /\ requests[r2].pc = "failed"
        /\ requests[r2].args.defaults_file = Undefined
        /\ requests[r2].args.filters = Some(<<RelativeFilter>>)
        /\ requests[r2].outcome.name = "FilterNotFoundError"

-----------------------------------------------------------------------------
(* Identity conversions: tool calls whose input and output format are the  *)
(* same input-capable format, in every spelling, handled one at a time.    *)

UpperCased(w) == [i \in 1..Len(w) |-> UpperOf(w[i])]

IdentityFormats ==
    UNION { { <<Some(f), Some(f)>>, <<Some(f), Some(UpperCased(f))>> } :
              f \in { INPUT_FORMATS[i] : i \in 1..Len(INPUT_FORMATS) } }
    \cup { <<Undefined, Undefined>>, <<Undefined, Some(PandocFormat.Markdown)>>,
           <<Some(TxtToken), Some(PandocFormat.Text)>> }

IdentityCalls ==
    { [NoArgs EXCEPT !.contents = c, !.input_file = i, !.output_file = o,
                     !.input_format = f[1], !.output_format = f[2]] :
        c \in ContentsValues, i \in InputFileValues, o \in OutputFileValues,
        f \in IdentityFormats }

IdentityReceive(r) ==
    /\ requests[r].pc = "idle"
    /\ \A o \in Reqs \ {r} : requests[o].pc = "idle"
    /\ \E a \in IdentityCalls :
          requests' = [requests EXCEPT ![r] =
              [IdleRequest EXCEPT !.pc = "received", !.name = "convert-contents",
                                  !.args = a]]
    /\ UNCHANGED <<call, result, env, fs, chmodLog>>

IdentityNext ==
    \E r \in Reqs :
        \/ IdentityReceive(r)
        \/ Validate(r)
        \/ Convert(r)
        \/ \E o \in AllEngineOutcomes : EngineExit(r, o)
        \/ Close(r)

IdentitySpec == HandlerInit /\ [][IdentityNext]_vars

\* A request for the conversion of one supplied source from an input-capable
\* format to the same format, with an output file where the format needs one.
IdentityRequest(q) ==
    LET p == paramsOf(q.args)
        f == NormalizedToken(p.inputFormat)
    IN  /\ q.name = "convert-contents"
        /\ f \in InputCapableTokens
        /\ NormalizedToken(p.outputFormat) = f
        /\ HasContents(p) # HasInputFile(p)
        /\ f \in FileOnlyTokens => HasOutputFile(p)

SameVerdict(v, w) ==
    /\ v.kind = w.kind
    /\ v.kind = "throw" => (v.name = w.name /\ v.text = w.text)
    /\ v.kind = "return" => v.value.outputFormat = w.value.outputFormat

\* C21: a request whose input and output format are the same input-capable
\* format f, with exactly one content source (and an output file where f
\* requires one), is validated exactly as the same request with any other
\* input format is: never an UnsupportedFormatError, never a missing
\* output file, and when validation passes both formats are f.  The handler
\* refuses it after validation only for want of a source it can dispatch
\* (no contents and no output file), and when the engine run succeeds the
\* request ends in success.
C21_IdentityConversionNeverErrors ==
    \A r \in Reqs :
        LET q == requests[r]
            p == paramsOf(q.args)
            f == NormalizedToken(p.inputFormat)
            v == validateConversionParams(p)
        IN  (IdentityRequest(q) /\ Ran(q, "validate")) =>
            /\ \A g \in InputCapableTokens :
                   SameVerdict(v, validateConversionParams([p EXCEPT !.inputFormat = g]))
            /\ v.kind = "throw" => (v.name = "ValidationError" /\ v.text \in {MsgBoth, MsgNeither})
            /\ (q.pc = "failed" /\ Len(q.steps) = 1) => q.outcome = v
            /\ Len(q.steps) > 1 =>
                   /\ v.kind = "return"
                   /\ q.inputFormat = f /\ q.outputFormat = f
            /\ (q.pc = "failed" /\ Len(q.steps) > 1 /\ q.spawned = <<>>) =>
                   /\ q.outcome.name = "Error"
                   /\ ~TruthyStr(q.args.contents) /\ ~TruthyStr(q.args.output_file)
            /\ q.spawned # <<>> =>
                   SubSeq(q.spawned[1].argv, 2, 5) = << <<"-f">>, f, <<"-t">>, f >>
            /\ q.engine = Some(EngineOk) =>
                   /\ q.pc = "responded"
                   /\ q.outcome.kind = "response"

\* A file conversion from docx to DOCX with an output file has ended in
\* success.
C21_Witness ==
    \E r \in Reqs :
        LET q == requests[r]
        IN  /\ q.args.input_format = Some(PandocFormat.DOCX)
            /\ q.args.output_format = Some(UpperCased(PandocFormat.DOCX))
            /\ q.args.input_file = Some("input.md")
            /\ q.args.output_file = Some("output.pdf")
            /\ q.pc = "responded"
            /\ q.outcome.via = "convertFile"
            /\ q.engine = Some(EngineOk)

-----------------------------------------------------------------------------
(* Output formats that need a file.                                        *)

\* C22: every request that ends in success with an output format that
\* requires file output (pdf, docx, epub, odt) had its engine invoked with
\* -o <output_file>, and its response is the confirmation message, not the
\* converted document inline; also when the request supplied contents
\* together with output_file.
C22_FileFormatsAreWrittenToTheOutputFile ==
    \A r \in Reqs :
        LET q    == requests[r]
            argv == q.spawned[1].argv
            n    == Len(argv)
        IN  (q.pc = "responded" /\ requiresFileOutput(q.outputFormat)) =>
            /\ Len(q.spawned) = 1
            /\ argv[n - 1] = Word("-o")
            /\ argv[n] = Word(q.args.output_file[1])
            /\ q.outcome = ToolResponse("convertFile",
                               <<"Successfully converted",
                                 q.args.input_file[1], q.args.output_file[1]>>)

-----------------------------------------------------------------------------
(* The auxiliary directory of filter resolution.                           *)

\* The directory of the defaults file of a call, when one was supplied and
\* is valid.
ValidatedDefaultsDir(a) ==
    IF TruthyPath(a.defaults_file)
         /\ validateDefaultsFile(a.defaults_file[1]).kind = "return"
    THEN Some(dirname(a.defaults_file[1]))
    ELSE Undefined

\* C23: the handler resolves the filters of a request with the directory of
\* defaults_file as auxiliary directory exactly when a defaults file was
\* supplied and passed validation, and without auxiliary directory
\* otherwise; the filters of a request whose defaults file failed validation
\* are never resolved.
C23_AuxDirIsTheValidatedDefaultsDir ==
    \A r \in Reqs :
        LET q == requests[r]
            a == q.args
        IN  q.name = "convert-contents" =>
            /\ Ran(q, "filters") =>
                   LET v == resolveFilterPaths(a.filters[1], ValidatedDefaultsDir(a)).outcome
                   IN  /\ TruthyPath(a.defaults_file) =>
                              /\ Ran(q, "defaults")
                              /\ validateDefaultsFile(a.defaults_file[1]).kind = "return"
                       /\ ~TruthyPath(a.defaults_file) => ~Ran(q, "defaults")
                       /\ q.defaultsFileDir = ValidatedDefaultsDir(a)
                       /\ IF v.kind = "throw"
                          THEN /\ q.pc = "failed"
                               /\ q.outcome = v
                               /\ q.resolvedFilters = Undefined
                          ELSE q.resolvedFilters = Some(v.value)
            /\ ( /\ TruthyPath(a.defaults_file)
                 /\ Ran(q, "defaults")
                 /\ validateDefaultsFile(a.defaults_file[1]).kind = "throw" ) =>
                   /\ q.pc = "failed"
                   /\ ~Ran(q, "filters")
                   /\ q.defaultsFileDir = Undefined
                   /\ q.resolvedFilters = Undefined
                   /\ chmodLog = <<>>

\* A request with a valid defaults file has had its filter found next to
\* that file, where only the auxiliary directory leads.
C23_Witness ==
    \E r \in Reqs :
        LET q == requests[r]
        IN  /\ q.args.defaults_file = Some(GoodDefaults)
            /\ q.args.filters = Some(<<RelativeFilter>>)
            /\ Ran(q, "filters")
            /\ q.resolvedFilters = Some(<< <<Root, "proj", "cfg", "f.lua">> >>)
            /\ resolveFilterPaths(<<RelativeFilter>>, Undefined).outcome.kind = "throw"

-----------------------------------------------------------------------------
(* defaults.ts step by step.  validateDefaultsFile awaits exists() and then *)
(* Deno.readTextFile; readDefaultsFile awaits validateDefaultsFile and then *)
(* reads and parses the file a second time.  Between two awaits another    *)
(* process may write, replace or remove the file.  call.pc is the await the *)
(* call is about to make; call.readFailed records that the first           *)
(* Deno.readTextFile threw.                                                *)

NestedDefaults == <<"d.yaml", "x.yaml">>

ReadPaths == { RelativeDefaults, NestedDefaults }

ReadFile == <<Root, "work", "d.yaml">>

ReadFilesystems == { << >> } \cup { (ReadFile :> e) : e \in DefaultsEntries }

\* Lines 81-84, outside any try block: Deno.readTextFile and parse.
secondRead(filePath) ==
    IF statFails(filePath) THEN NotADirectory
    ELSE IF ~existsFile(filePath)
    THEN [kind |-> "throw", name |-> "NotFound",
          text |-> "No such file or directory (os error 2)", filePath |-> Undefined]
    ELSE LET parsed == fs[AbsolutePath(filePath)].content
         IN  IF parsed.kind = "unreadable"
             THEN [kind |-> "throw", name |-> "PermissionDenied",
                   text |-> "Permission denied (os error 13)", filePath |-> Undefined]
             ELSE IF parsed.kind = "error"
             THEN [kind |-> "throw", name |-> "SyntaxError",
                   text |-> "YAML syntax error", filePath |-> Undefined]
             ELSE Return(parsed)

DefaultsReadInit ==
    /\ call \in { [op |-> o, pc |-> "exists", filePath |-> p, readFailed |-> FALSE] :
                     o \in {"validateDefaultsFile", "readDefaultsFile"}, p \in ReadPaths }
    /\ result = NoResult
    /\ env = [os |-> "linux", HOME |-> Some(UnixHome), USERPROFILE |-> Undefined,
              PANDOC_PATH |-> Undefined]
    /\ fs \in ReadFilesystems
    /\ chmodLog = << >>
    /\ requests = << >>

\* Lines 17-20: the awaited exists() and the File not found error.
ExistsStep ==
    /\ call.pc = "exists"
    /\ IF statFails(call.filePath)
       THEN call' = [call EXCEPT !.pc = "done"] /\ result' = NotADirectory
       ELSE IF ~existsFile(call.filePath)
       THEN /\ call' = [call EXCEPT !.pc = "done"]
            /\ result' = DefaultsFileError("File not found", call.filePath)
       ELSE call' = [call EXCEPT !.pc = "read"] /\ result' = result
    /\ UNCHANGED <<env, fs, chmodLog, requests>>

\* Lines 22-70: the awaited Deno.readTextFile and what follows it; for
\* readDefaultsFile, line 81 continues after a true result.
ReadStep ==
    LET v      == readAndCheck(call.filePath)
        failed == \/ ~existsFile(call.filePath)
                  \/ fs[AbsolutePath(call.filePath)].content.kind = "unreadable"
    IN  /\ call.pc = "read"
        /\ IF call.op = "readDefaultsFile" /\ v.kind = "return"
           THEN call' = [call EXCEPT !.pc = "second"] /\ result' = result
           ELSE /\ call' = [call EXCEPT !.pc = "done", !.readFailed = failed]
                /\ result' = v
        /\ UNCHANGED <<env, fs, chmodLog, requests>>

\* Lines 83-86 of readDefaultsFile.
SecondReadStep ==
    /\ call.pc = "second"
    /\ call' = [call EXCEPT !.pc = "done"]
    /\ result' = secondRead(call.filePath)
    /\ UNCHANGED <<env, fs, chmodLog, requests>>

\* Another process writes, replaces or removes the file while the call is
\* suspended at an await.
OtherProcessWrites ==
    /\ call.pc \in {"read", "second"}
    /\ fs' \in ReadFilesystems \ {fs}
    /\ UNCHANGED <<call, result, env, chmodLog, requests>>

DefaultsReadNext ==
    \/ ExistsStep
    \/ ReadStep
    \/ SecondReadStep
    \/ OtherProcessWrites

DefaultsReadSpec == DefaultsReadInit /\ [][DefaultsReadNext]_vars

\* C24: every failure of validateDefaultsFile is a DefaultsFileError that
\* carries the offending path, and no other kind of error escapes it; when
\* the file existed at the existence check but reading it fails (removed
\* meanwhile, or not readable), the failure is the DefaultsFileError
\* "Failed to parse YAML".
C24_OnlyDefaultsFileErrorsEscape ==
    ( /\ call.op = "validateDefaultsFile"
      /\ call.pc = "done"
      /\ result.kind = "throw" ) =>
        /\ result.name = "DefaultsFileError"
        /\ result.filePath = call.filePath
        /\ call.readFailed => result.text = "Failed to parse YAML"

\* C25: every value readDefaultsFile returns is a mapping that satisfies the
\* validation rules (not null, not an array or scalar, not holding both
\* from and to), and every failure of readDefaultsFile is a
\* DefaultsFileError, also when another process modifies, empties or removes
\* the file between the validating read and the second read.
C25_ReadReturnsAValidatedMapping ==
    (call.op = "readDefaultsFile" /\ call.pc = "done") =>
        /\ result.kind = "return" =>
               /\ result.value.kind = "object"
               /\ ~({"from", "to"} \subseteq result.value.keys)
        /\ result.kind = "throw" =>
               /\ result.name = "DefaultsFileError"
               /\ result.filePath = call.filePath

-----------------------------------------------------------------------------
(* The HTTP entry point (startHttpServer).  One MCP server is created at   *)
(* startup; the request listener runs once per HTTP request.  requests[h]  *)
(* is HTTP request h: its method and URL, the JSON-RPC id of the message   *)
(* in its body, what the listener and the transport wrote on its response  *)
(* (writes counts the status lines written, delivered lists the requests   *)
(* whose JSON-RPC responses were written on it), and its position:         *)
(* "connected" after the listener called mcpServer.connect, "running"      *)
(* while the tool handler of its message runs, "done", "refused" when      *)
(* connect threw, or "dropped" when its JSON-RPC response could not be     *)
(* written anywhere.  call is the                                          *)
(* server: the transport it is connected to, and whether connect() of the  *)
(* installed SDK replaces the transport of a connected server or refuses.  *)

NumConns == 2

Conns == 1..NumConns

UrlRoot == <<"/">>

UrlHealth == <<"/","h","e","a","l","t","h">>

UrlHealthQuery == <<"/","h","e","a","l","t","h","?","v">>

UrlSse == <<"/","s","s","e">>

UrlMcp == <<"/","m","c","p">>

UrlMcpLonger == <<"/","m","c","p","x">>

HttpUrls ==
    { Undefined, Some(UrlHealth), Some(UrlHealthQuery), Some(UrlSse), Some(UrlMcp),
      Some(UrlMcpLonger) }

HttpMethods == { "OPTIONS", "GET", "POST" }

RpcIds == { 1, 2 }

\* The requests of clients: a POST carries a JSON-RPC message with an id the
\* client chose (0 stands for a request without such a message).
HttpRequests ==
    { [method |-> m, url |-> u, rpcId |-> 0] : m \in {"OPTIONS", "GET"}, u \in HttpUrls }
    \cup { [method |-> "POST", url |-> u, rpcId |-> id] : u \in HttpUrls, id \in RpcIds }

\* String.prototype.startsWith
startsWith(s, prefix) ==
    Len(s) >= Len(prefix) /\ SubSeq(s, 1, Len(prefix)) = prefix

IdleConn ==
    [ pc |-> "idle", method |-> "", url |-> Undefined, rpcId |-> 0,
      cors |-> FALSE, writes |-> 0, status |-> 0, body |-> "", ended |-> FALSE,
      branch |-> "", threw |-> FALSE, captured |-> 0, delivered |-> <<>> ]

\* res.writeHead(status, ...) and res.end(body)
Answer(q, branch, status, body) ==
    [q EXCEPT !.pc = "done", !.branch = branch, !.writes = @ + 1,
              !.status = status, !.body = body, !.ended = TRUE]

\* connect() of a server that is already connected: SDK versions up to 1.25
\* replace the transport the server holds, later ones throw.
SdkVariants == { "replaces", "refuses" }

HttpInit ==
    /\ call \in { [op |-> "http", sdk |-> v, transport |-> Undefined] : v \in SdkVariants }
    /\ result = NoResult
    /\ env = [os |-> "linux", HOME |-> Some(UnixHome), USERPROFILE |-> Undefined,
              PANDOC_PATH |-> Undefined]
    /\ fs = << >>
    /\ chmodLog = << >>
    /\ requests = [h \in Conns |-> IdleConn]

\* Lines 34-76: the listener from its start to its first suspension, which
\* is inside mcpServer.connect (the server takes the transport before
\* connect awaits transport.start()), or to its return.
Listener(h) ==
    /\ requests[h].pc = "idle"
    /\ \E c \in HttpRequests :
          LET m   == c.method
              u   == c.url
              url == OrElse(u, UrlRoot)
              q   == [IdleConn EXCEPT !.method = m, !.url = u, !.rpcId = c.rpcId,
                                      !.cors = TRUE]
          IN  IF m = "OPTIONS"
              THEN /\ requests' = [requests EXCEPT ![h] = Answer(q, "preflight", 204, "")]
                   /\ call' = call
              ELSE IF url = UrlHealth /\ m = "GET"
              THEN /\ requests' = [requests EXCEPT ![h] = Answer(q, "health", 200, "status ok")]
                   /\ call' = call
              ELSE IF startsWith(url, UrlSse) \/ startsWith(url, UrlMcp)
              THEN IF call.sdk = "refuses" /\ IsDefined(call.transport)
                   THEN /\ requests' = [requests EXCEPT ![h] =
                               [Answer(q, "mcp", 500, "Internal server error")
                                   EXCEPT !.pc = "refused", !.threw = TRUE]]
                        /\ call' = call
                   ELSE /\ requests' = [requests EXCEPT ![h] =
                               [q EXCEPT !.pc = "connected", !.branch = "mcp"]]
                        /\ call' = [call EXCEPT !.transport = Some(h)]
              ELSE /\ requests' = [requests EXCEPT ![h] = Answer(q, "unknown", 404, "Not Found")]
                   /\ call' = call
    /\ UNCHANGED <<result, env, fs, chmodLog>>

\* Mutant: the catch writes the 500 response whether or not headers were sent.
HandleRequest_Always500(h) ==
    LET q == requests[h]
    IN  /\ q.pc = "connected"
        /\ \/ /\ q.method = "POST"
              /\ requests' = [requests EXCEPT ![h] =
                    [q EXCEPT !.pc = "running", !.writes = @ + 1, !.status = 200,
                              !.captured = call.transport[1]]]
           \/ \E code \in {400, 406} :
                 requests' = [requests EXCEPT ![h] = Answer(q, "mcp", code, "transport error")]
           \/ requests' = [requests EXCEPT ![h] =
                 [Answer(q, "mcp", 500, "Internal server error") EXCEPT !.threw = TRUE]]
           \/ requests' = [requests EXCEPT ![h] =
                 [Answer([q EXCEPT !.writes = @ + 1], "mcp", 500, "Internal server error")
                     EXCEPT !.threw = TRUE]]
        /\ UNCHANGED <<call, result, env, fs, chmodLog>>

\* Lines 78-88: connect has resolved and transport.handleRequest runs to its
\* end.  For a POST carrying a JSON-RPC request it opens the response stream
\* and hands the message to the server, which notes the transport it is
\* connected to at that moment; otherwise the transport answers by itself,
\* or it throws, before or after it sent headers, and the catch writes the
\* 500 response only if no headers were sent.
HandleRequest(h) ==
    LET q == requests[h]
    IN  /\ q.pc = "connected"
        /\ \/ /\ q.method = "POST"
              /\ requests' = [requests EXCEPT ![h] =
                    [q EXCEPT !.pc = "running", !.writes = @ + 1, !.status = 200,
                              !.captured = call.transport[1]]]
           \/ \E code \in {400, 406} :
                 requests' = [requests EXCEPT ![h] = Answer(q, "mcp", code, "transport error")]
           \/ requests' = [requests EXCEPT ![h] =
                 [Answer(q, "mcp", 500, "Internal server error") EXCEPT !.threw = TRUE]]
           \/ requests' = [requests EXCEPT ![h] =
                 [q EXCEPT !.pc = "done", !.writes = @ + 1, !.status = 200,
                           !.threw = TRUE]]
        /\ UNCHANGED <<call, result, env, fs, chmodLog>>

\* The response stream of request t is open for a JSON-RPC response with id.
StreamOpen(t, id) ==
    /\ requests[t].pc = "running"
    /\ ~requests[t].ended
    /\ requests[t].rpcId = id

\* The tool handler of the message of request h has settled and the server
\* sends the JSON-RPC response: on the transport it noted when the message
\* came in, or (SDK versions that do not note it) on the transport it is
\* connected to now.  The transport writes the response on the stream it
\* holds for that JSON-RPC id and closes the stream; with no such stream the
\* send fails and the response is written nowhere.
Respond(h) ==
    LET q == requests[h]
    IN  /\ q.pc = "running"
        /\ \E t \in {q.captured, call.transport[1]} :
              requests' =
                 IF StreamOpen(t, q.rpcId)
                 THEN [o \in Conns |->
                         IF o = t /\ o = h
                         THEN [q EXCEPT !.pc = "done", !.ended = TRUE,
                                        !.delivered = Append(@, h)]
                         ELSE IF o = t
                         THEN [requests[t] EXCEPT !.ended = TRUE,
                                                  !.delivered = Append(@, h)]
                         ELSE IF o = h THEN [q EXCEPT !.pc = "done"]
                         ELSE requests[o]]
                 ELSE [requests EXCEPT ![h] = [q EXCEPT !.pc = "dropped"]]
        /\ UNCHANGED <<call, result, env, fs, chmodLog>>

HttpNext ==
    \E h \in Conns :
        \/ Listener(h)
        \/ HandleRequest(h)
        \/ Respond(h)

HttpSpec == HttpInit /\ [][HttpNext]_vars

\* C26: with one MCP server connected to a fresh transport on every request
\* to /sse or /mcp, the JSON-RPC response of each request is written on the
\* HTTP response of the request that caused it, in every interleaving;
\* connecting the server for another request never redirects, drops or
\* fails a response.
C26_ResponsesStayOnTheirOwnTransport ==
    \A h \in Conns :
        LET q == requests[h]
        IN  /\ \A i \in 1..Len(q.delivered) : q.delivered[i] = h
            /\ q.pc \notin {"dropped", "refused"}
            /\ (q.pc = "done" /\ q.branch = "mcp" /\ q.status = 200 /\ ~q.threw) =>
                   q.delivered = <<h>>

-----------------------------------------------------------------------------
(* Termination of a request.  The synchronous parts of a handler run as    *)
(* soon as the event loop reaches them, and every awaited filesystem       *)
(* operation and engine subprocess is assumed to complete.                 *)

\* Validation runs as soon as the handler is called, and the await of
\* resolveFilterPaths (mcp.ts line 114) completes.  Each of the two steps is
\* possible exactly while the request stands at it, whatever the arguments
\* and the filesystem are, so weak fairness on it is written out with that
\* position as its enabling condition.
ValidateCompletes(r) ==
    \/ []<>(requests[r].pc # "received")
    \/ []<><<Validate(r)>>_vars

FiltersComplete(r) ==
    \/ []<>(requests[r].pc # "filters")
    \/ []<><<ResolveFilters(r)>>_vars

HandlerFairness ==
    \A r \in Callers :
        /\ ValidateCompletes(r)
        /\ WF_vars(CheckDefaults(r))
        /\ FiltersComplete(r)
        /\ WF_vars(Convert(r))
        /\ WF_vars(\E o \in AllEngineOutcomes : EngineExit(r, o))

HandlerLiveSpec == ConcurrentInit /\ [][ConcurrentNext]_vars /\ HandlerFairness

\* C27: every received request eventually ends in one of the terminal
\* states responded and failed, and stays as it ended; a request whose
\* subprocess runs leaves that state only when the subprocess ends (no
\* timeout or cancellation of the handler's own).
C27_EveryRequestTerminates ==
    /\ \A r \in Callers :
           (requests[r].pc = "received") ~> Settled(requests[r])
    /\ [][ \A r \in Callers :
              /\ Settled(requests[r]) => requests'[r] = requests[r]
              /\ (requests[r].pc = "converting" /\ requests'[r] # requests[r]) =>
                     /\ requests[r].engine = Undefined
                     /\ requests'[r].engine \in { Some(o) : o \in AllEngineOutcomes }
                     /\ Settled(requests'[r]) ]_vars

\* A request has passed every await (defaults file, filters, subprocess) and
\* ended in success while another has ended in failure.
C27_Witness ==
    \E r1, r2 \in Callers :
        /\ requests[r1].pc = "responded"
        /\ requests[r1].steps = <<"validate", "defaults", "filters", "convert">>
        /\ requests[r2].pc = "failed"

-----------------------------------------------------------------------------
(* Engine subprocesses per request and at once.                            *)

\* The handler would start a subprocess for these arguments (mcp.ts lines
\* 123 and 144).
Dispatches(a) ==
    TruthyStr(a.contents) \/ (TruthyStr(a.input_file) /\ TruthyStr(a.output_file))

\* C28: a request spawns at most one engine subprocess, exactly one when it
\* ends in success, and none after its subprocess has ended, failed or not
\* (no retry); a request that has come to its conversion starts its
\* subprocess whatever number of subprocesses of other requests are alive
\* (no queue, pool or limit).
C28_OneSubprocessPerRequestNoLimit ==
    \A r \in Callers :
        LET q == requests[r]
        IN  /\ Len(q.spawned) <= 1
            /\ q.pc = "responded" => Len(q.spawned) = 1
            /\ q.pc = "converting" => Len(q.spawned) = 1 /\ q.engine = Undefined
            /\ q.engine # Undefined => Settled(q) /\ Len(q.spawned) = 1
            /\ (q.pc = "convert" /\ Dispatches(q.args))
                  => ENABLED (Convert(r) /\ requests'[r].pc = "converting")

\* Every call in flight has its subprocess alive at the same moment.
C28_Witness ==
    \A r \in Callers :
        requests[r].pc = "converting" /\ Len(requests[r].spawned) = 1

-----------------------------------------------------------------------------
(* The token lists handed out by getSupportedFormats and getInputFormats.  *)
(* The module's two arrays and every returned list are objects that a      *)
(* holder of a reference can change; validateFormat reads the module's     *)
(* arrays when it is called.                                               *)

MaxLists == 2

MaxEdits == 2

ModuleArrays ==
    [ INPUT_FORMATS |-> INPUT_FORMATS, ALL_FORMATS |-> ALL_FORMATS, lists |-> << >> ]

ModuleRef(name) == [kind |-> "module", name |-> name, index |-> 0]

ListRef(i) == [kind |-> "list", name |-> "", index |-> i]

Deref(heap, ref) ==
    IF ref.kind = "module" THEN heap[ref.name] ELSE heap.lists[ref.index]

Store(heap, ref, v) ==
    IF ref.kind = "module" THEN [heap EXCEPT ![ref.name] = v]
    ELSE [heap EXCEPT !.lists[ref.index] = v]

\* Mutant: the getters hand out the module's array itself.
ArrayFrom_SameArray(heap, name) == [heap |-> heap, ref |-> ModuleRef(name)]

\* Array.from: a new array with the elements of the given one.
ArrayFrom(heap, name) ==
    [ heap |-> [heap EXCEPT !.lists = Append(@, heap[name])],
      ref  |-> ListRef(Len(heap.lists) + 1) ]

getSupportedFormats(heap) == ArrayFrom(heap, "ALL_FORMATS")

getInputFormats(heap) == ArrayFrom(heap, "INPUT_FORMATS")

\* validateFormat as it runs at some moment: ALL_FORMATS and the allowed
\* list are the module's arrays as they are then.
validateFormatAt(heap, format, allowed) ==
    LET lowered    == toLowerCase(format)
        normalized == IF lowered = TxtToken THEN PandocFormat.Text ELSE lowered
    IN  IF ~includes(heap.ALL_FORMATS, normalized)
        THEN UnsupportedFormatError(format, "")
        ELSE IF ~includes(heap[allowed], normalized)
             THEN UnsupportedFormatError(format,
                      IF allowed = "INPUT_FORMATS" THEN "for input" ELSE "")
             ELSE Return(normalized)

ListTokens ==
    TenCanonicalTokens \cup
    { TxtToken, <<"T","X","T">>, <<"P","D","F">>, <<"H","t","m","l">>,
      <<"x","y","z">>, << >> }

EditTokens == { PdfToken, <<"x","y","z">> }

\* The tokens validated after the lists were handed out: the ones a holder
\* can push, an alias, an upper-case spelling and an input format.
LaterTokens == EditTokens \cup { TxtToken, <<"P","D","F">>, PandocFormat.Markdown }

\* What the holder of a list can do to it: push, pop, assign its first
\* element.
Edits(list) ==
    { Append(list, t) : t \in EditTokens } \cup
    { IF list = << >> THEN list ELSE Front(list) } \cup
    { IF list = << >> THEN <<t>> ELSE <<t>> \o Tail(list) : t \in EditTokens }

ListInit ==
    /\ call = [op |-> "lists", heap |-> ModuleArrays, held |-> << >>, edits |-> 0]
    /\ result = NoResult
    /\ NoEnvironment

Hold(getter, got) ==
    /\ Len(call.held) < MaxLists
    /\ call' = [call EXCEPT !.heap = got.heap,
                            !.held = Append(@, [getter |-> getter, ref |-> got.ref,
                                                returned |-> Deref(got.heap, got.ref)])]
    /\ UNCHANGED <<result, env, fs, chmodLog, requests>>

GetSupportedFormatsCall == Hold("getSupportedFormats", getSupportedFormats(call.heap))

GetInputFormatsCall == Hold("getInputFormats", getInputFormats(call.heap))

HolderEditsList ==
    /\ call.edits < MaxEdits
    /\ \E i \in 1..Len(call.held) :
          \E l \in Edits(Deref(call.heap, call.held[i].ref)) :
              /\ l # Deref(call.heap, call.held[i].ref)
              /\ call' = [call EXCEPT !.heap = Store(@, call.held[i].ref, l),
                                      !.edits = @ + 1]
    /\ UNCHANGED <<result, env, fs, chmodLog, requests>>

ValidateLater ==
    /\ \E t \in LaterTokens, allowed \in {"INPUT_FORMATS", "ALL_FORMATS"} :
          result' = [kind |-> "validated", format |-> t, allowed |-> allowed,
                     outcome |-> validateFormatAt(call.heap, t, allowed)]
    /\ UNCHANGED <<call, env, fs, chmodLog, requests>>

ListNext ==
    \/ GetSupportedFormatsCall
    \/ GetInputFormatsCall
    \/ HolderEditsList
    \/ ValidateLater

ListSpec == ListInit /\ [][ListNext]_vars

Elements(list) == { list[i] : i \in 1..Len(list) }

WithoutPdf(list) == SelectSeq(list, LAMBDA f : f # PdfToken)

\* C29: getSupportedFormats returns the ten canonical tokens, each once, and
\* getInputFormats the same list in the same order without pdf; every token
\* of the supported list is accepted by validateOutputFormat and maps to
\* itself; validateInputFormat accepts a token exactly when its normalized
\* form is in the list getInputFormats returns; and whatever the holders of
\* returned lists have done to them, a validation gives what it gave at
\* start-up.
C29_ListsAgreeWithValidation ==
    LET supported == Deref(getSupportedFormats(call.heap).heap,
                           getSupportedFormats(call.heap).ref)
        input     == Deref(getInputFormats(call.heap).heap,
                           getInputFormats(call.heap).ref)
    IN  /\ Len(supported) = 10 /\ Elements(supported) = TenCanonicalTokens
        /\ input = WithoutPdf(supported)
        /\ \A i \in 1..Len(call.held) :
              call.held[i].returned =
                  IF call.held[i].getter = "getSupportedFormats"
                  THEN supported ELSE input
        /\ \A t \in Elements(supported) :
              validateFormatAt(call.heap, t, "ALL_FORMATS") = Return(t)
        /\ \A t \in ListTokens :
              (validateFormatAt(call.heap, t, "INPUT_FORMATS").kind = "return")
                  <=> NormalizedToken(t) \in Elements(input)
        /\ result.kind = "validated" =>
              result.outcome = IF result.allowed = "INPUT_FORMATS"
                               THEN validateInputFormat(result.format)
                               ELSE validateOutputFormat(result.format)

\* A holder has emptied or extended both returned lists, and a token pushed
\* onto them is still refused afterwards.
C29_Witness ==
    /\ Len(call.held) = 2
    /\ call.held[1].getter = "getSupportedFormats"
    /\ call.held[2].getter = "getInputFormats"
    /\ <<"x","y","z">> \in Elements(Deref(call.heap, call.held[1].ref))
    /\ PdfToken \in Elements(Deref(call.heap, call.held[2].ref))
    /\ result.kind = "validated" /\ result.format = PdfToken
    /\ result.allowed = "INPUT_FORMATS" /\ result.outcome.kind = "throw"

====
